---- MODULE Spec2Model ----
(***************************************************************************)
(* Docker Copy: the migration engine (runMigration), the piped volume      *)
(* synchronisation (runPipedCommands) and the plan builder                 *)
(* (createMigrationPlan) of the Electron main process.                     *)
(*                                                                         *)
(* Strings that the program builds from parts are tuples of their parts:   *)
(* `Creating network ${n} on target` is <<"Creating network ", n,          *)
(* " on target">>.  Container names are tuples of characters, because      *)
(* sanitizeImageTag works on their characters.                             *)
(***************************************************************************)
EXTENDS Integers, Sequences, FiniteSets, TLC

\* ------------------------------------------------------------------ bounds
\* the total number of names in one selection (containers + volumes + networks)
MaxSelected == 3
\* child processes close with an exit code in 0..MaxExitCode, or with null
MaxExitCode == 1
\* Date.now() reads a value in 0..MaxClock
MaxClock == 1

\* ------------------------------------------------------- generic helpers
RECURSIVE Flatten(_)
Flatten(ss) == IF ss = <<>> THEN <<>> ELSE Head(ss) \o Flatten(Tail(ss))

RECURSIVE SeqsUpTo(_, _)
SeqsUpTo(S, n) ==
  IF n = 0 THEN {<<>>}
  ELSE LET shorter == SeqsUpTo(S, n - 1)
       IN  shorter \cup {Append(s, x) : s \in {t \in shorter : Len(t) = n - 1}, x \in S}

Range(s) == {s[k] : k \in 1..Len(s)}

\* ----------------------------------------------------------------- hosts
\* HostConfig: an absent field is the empty string (port: 0), as in `{}`
LocalHost == [host |-> "", user |-> "", port |-> 0, identityFile |-> ""]
RemoteHost == [host |-> "10.0.0.2", user |-> "root", port |-> 0, identityFile |-> ""]
Hosts == {LocalHost, RemoteHost}

isRemoteHost(h) == h.host # "" /\ h.user # ""

\* the empty tuple stands for the exception buildSshArgs throws
buildSshArgs(h, remoteCommand) ==
  IF h.host = "" \/ h.user = "" THEN <<>>
  ELSE (IF h.port # 0 THEN <<"-p", h.port>> ELSE <<>>)
       \o (IF h.identityFile # "" THEN <<"-i", h.identityFile>> ELSE <<>>)
       \o <<<<h.user, "@", h.host>>, "--", remoteCommand>>

shellEscape(value) == <<"'", value, "'">>

buildDockerCommand(args) ==
  <<"docker">> \o Flatten([k \in 1..Len(args) |-> <<" ">> \o shellEscape(args[k])])

DEFAULT_NETWORKS == {"bridge", "host", "none"}

\* variant: "bridge" is missing from the set
isDefaultNetworkWithoutBridge(name) == name \in {"host", "none"}

isDefaultNetwork(name) == name \in DEFAULT_NETWORKS

buildDockerTarArgs(volume) ==
  <<"run", "--rm", "-v", <<volume, ":/from">>, "alpine", "sh", "-c", "cd /from && tar -cpf - .">>

buildDockerUntarArgs(volume) ==
  <<"run", "--rm", "-i", "-v", <<volume, ":/to">>, "alpine", "sh", "-c",
    "cd /to && rm -rf ./* ./.??* && tar -xpf -">>

buildDockerUntarCommand(volume) == buildDockerCommand(buildDockerUntarArgs(volume))

\* ------------------------------------------------------- the name universe
NetworkNames == {"bridge", "appnet"}
VolumeNames == {"data"}
ContainerNames == {<<"w", "e", "b">>, <<"W", "e", "b">>}

Selections ==
  {[containers |-> c, volumes |-> v, networks |-> n] :
     c \in SeqsUpTo(ContainerNames, MaxSelected),
     v \in SeqsUpTo(VolumeNames, MaxSelected),
     n \in SeqsUpTo(NetworkNames, MaxSelected)}

BoundedSelections ==
  {s \in Selections : Len(s.containers) + Len(s.volumes) + Len(s.networks) <= MaxSelected}

MigrationOptions ==
  [includeContainers : BOOLEAN, includeVolumes : BOOLEAN, includeNetworks : BOOLEAN,
   dryRun : BOOLEAN]

\* the "Run migration" button is disabled while options.dryRun is set: the
\* renderer hands runMigration only options with dryRun off
RunOptions == {o \in MigrationOptions : ~o.dryRun}

\* ------------------------------------------------------------- image tags
UpperCaseLetters ==
  <<"A", "B", "C", "D", "E", "F", "G", "H", "I", "J", "K", "L", "M",
    "N", "O", "P", "Q", "R", "S", "T", "U", "V", "W", "X", "Y", "Z">>
LowerCaseLetters ==
  <<"a", "b", "c", "d", "e", "f", "g", "h", "i", "j", "k", "l", "m",
    "n", "o", "p", "q", "r", "s", "t", "u", "v", "w", "x", "y", "z">>
Digits == {"0", "1", "2", "3", "4", "5", "6", "7", "8", "9"}

toLowerCase(c) ==
  IF \E k \in 1..Len(UpperCaseLetters) : UpperCaseLetters[k] = c
  THEN LowerCaseLetters[CHOOSE k \in 1..Len(UpperCaseLetters) : UpperCaseLetters[k] = c]
  ELSE c

\* the characters the pattern [^a-z0-9_.-] leaves alone
IsTagChar(c) == c \in Range(LowerCaseLetters) \cup Digits \cup {"_", ".", "-"}

\* replace(/[^a-z0-9_.-]+/g, '-') on a tuple of characters: each maximal run of
\* other characters becomes one "-"
RECURSIVE ReplaceInvalidRuns(_, _)
ReplaceInvalidRuns(chars, inRun) ==
  IF chars = <<>> THEN <<>>
  ELSE IF IsTagChar(Head(chars))
       THEN <<Head(chars)>> \o ReplaceInvalidRuns(Tail(chars), FALSE)
       ELSE (IF inRun THEN <<>> ELSE <<"-">>) \o ReplaceInvalidRuns(Tail(chars), TRUE)

sanitizeImageTag(value) ==
  ReplaceInvalidRuns([k \in 1..Len(value) |-> toLowerCase(value[k])], FALSE)

\* -------------------------------------------------- inspected configuration
\* ContainerInspect; an absent field is the empty tuple / empty string / 0.
\* Name is a tuple of characters with its leading "/"; a bind is a tuple of the
\* parts of the bind string; PortBindings and Networks are in key order.
NoRestart == [Name |-> "", MaximumRetryCount |-> 0]

EmptyInspect ==
  [Name |-> <<>>, Env |-> <<>>, Cmd |-> <<>>, Entrypoint |-> <<>>, WorkingDir |-> "",
   User |-> "", Binds |-> <<>>, PortBindings |-> <<>>, RestartPolicy |-> NoRestart,
   Networks |-> <<>>, Running |-> FALSE]

\* what `docker inspect` knows about the containers of the source host
DockerInspect(name) ==
  IF name = <<"w", "e", "b">>
  THEN [EmptyInspect EXCEPT
          !.Name = <<"/">> \o name,
          !.Env = <<"MODE=prod">>,
          !.Cmd = <<"serve">>,
          !.Binds = <<<<"C", ":", "\\", "data", ":", "/data">>, <<"/", "srv", ":", "/srv">>>>,
          !.PortBindings = <<[port |-> "80/tcp",
                              bindings |-> <<[HostIp |-> "", HostPort |-> "8080"]>>]>>,
          !.RestartPolicy = [Name |-> "on-failure", MaximumRetryCount |-> 3],
          !.Networks = <<"bridge", "appnet">>,
          !.Running = TRUE]
  ELSE [EmptyInspect EXCEPT !.Name = <<"/">> \o name]

\* item.Name?.replace(/^\//, '')
StripLeadingSlash(chars) ==
  IF chars # <<>> /\ Head(chars) = "/" THEN Tail(chars) ELSE chars

\* JSON.parse of the inspection output; the output is a tuple of tokens, the
\* empty tuple being the empty text, on which JSON.parse throws a SyntaxError
JSONStringify(items) == <<"[">> \o items \o <<"]">>
JSONParse(text) ==
  IF Len(text) = 0 THEN [ok |-> FALSE, value |-> <<>>]
  ELSE [ok |-> TRUE, value |-> SubSeq(text, 2, Len(text) - 1)]

\* new Map(items.map(item => [name, item]).filter(([name]) => Boolean(name))):
\* for a name that occurs twice the later item wins
HasInspect(items, name) ==
  \E k \in 1..Len(items) :
    items[k].Name # <<>> /\ StripLeadingSlash(items[k].Name) # <<>>
    /\ StripLeadingSlash(items[k].Name) = name

InspectOf(items, name) ==
  LET ks == {k \in 1..Len(items) : StripLeadingSlash(items[k].Name) = name}
  IN  items[CHOOSE k \in ks : \A j \in ks : j <= k]

isWindowsPath(value) ==
  \/ /\ Len(value) >= 3
     /\ value[1] \in Range(LowerCaseLetters) \cup Range(UpperCaseLetters)
     /\ value[2] = ":"
     /\ value[3] = "\\"
  \/ \E k \in 1..Len(value) : value[k] = "\\"

normalizeBindMount(bind) ==
  IF isWindowsPath(bind) THEN [bind |-> <<>>, reason |-> "Windows host path detected"]
  ELSE [bind |-> bind, reason |-> ""]

\* an argument of the creation command is the tuple of its parts: '-v' is
\* <<"-v">>, `--restart=${policy}` is <<"--restart=", policy>>
RECURSIVE BindArgs(_)
BindArgs(binds) ==
  IF binds = <<>> THEN <<>>
  ELSE (IF normalizeBindMount(Head(binds)).bind # <<>>
        THEN << <<"-v">>, normalizeBindMount(Head(binds)).bind >> ELSE <<>>)
       \o BindArgs(Tail(binds))

SkippedBinds(binds) == SelectSeq(binds, LAMBDA b : normalizeBindMount(b).bind = <<>>)

PortArgs(entry) ==
  Flatten([k \in 1..Len(entry.bindings) |->
    LET b == entry.bindings[k]
        hostIp == IF b.HostIp # "" THEN <<b.HostIp, ":">> ELSE <<>>
        hostPort == IF b.HostPort # "" THEN <<b.HostPort, ":">> ELSE <<>>
    IN  << <<"-p">>, hostIp \o hostPort \o <<entry.port>> >>])

\* variant: the retry count is appended to on-failure also when it is 0
RestartArgsAlwaysCount(restart) ==
  IF restart.Name # "" /\ restart.Name # "no"
  THEN IF restart.Name = "on-failure"
       THEN << <<"--restart=", "on-failure:", restart.MaximumRetryCount>> >>
       ELSE << <<"--restart=", restart.Name>> >>
  ELSE <<>>

\* restart?.Name && restart.Name !== 'no'; MaximumRetryCount counts when it is not 0
RestartArgs(restart) ==
  IF restart.Name # "" /\ restart.Name # "no"
  THEN IF restart.Name = "on-failure" /\ restart.MaximumRetryCount # 0
       THEN << <<"--restart=", "on-failure:", restart.MaximumRetryCount>> >>
       ELSE << <<"--restart=", restart.Name>> >>
  ELSE <<>>

\* variant: one flag for every network that is not a default network
NetworkArgsEvery(networkNames) ==
  LET nonDefault == SelectSeq(networkNames, LAMBDA n : ~isDefaultNetwork(n))
  IN  Flatten([k \in 1..Len(nonDefault) |-> << <<"--network">>, <<nonDefault[k]>> >>])

NetworkArgs(networkNames) ==
  LET nonDefault == SelectSeq(networkNames, LAMBDA n : ~isDefaultNetwork(n))
  IN  IF nonDefault # <<>> /\ Head(nonDefault) # ""
      THEN << <<"--network">>, <<Head(nonDefault)>> >> ELSE <<>>

\* parts.join(' ')
RECURSIVE JoinWithSpace(_)
JoinWithSpace(parts) ==
  IF Len(parts) <= 1 THEN parts
  ELSE <<Head(parts), " ">> \o JoinWithSpace(Tail(parts))

buildContainerRunArgs(name, inspect, imageTag) ==
  [args |->
     (IF inspect.Running THEN << <<"run">>, <<"-d">> >> ELSE << <<"create">> >>)
     \o << <<"--name">>, name >>
     \o Flatten([k \in 1..Len(inspect.Env) |-> << <<"-e">>, <<inspect.Env[k]>> >>])
     \o BindArgs(inspect.Binds)
     \o Flatten([k \in 1..Len(inspect.PortBindings) |-> PortArgs(inspect.PortBindings[k])])
     \o RestartArgs(inspect.RestartPolicy)
     \o NetworkArgs(inspect.Networks)
     \o (IF inspect.WorkingDir # "" THEN << <<"-w">>, <<inspect.WorkingDir>> >> ELSE <<>>)
     \o (IF inspect.User # "" THEN << <<"-u">>, <<inspect.User>> >> ELSE <<>>)
     \o (IF inspect.Entrypoint # <<>>
         THEN << <<"--entrypoint">>, JoinWithSpace(inspect.Entrypoint) >> ELSE <<>>)
     \o <<imageTag>>
     \o [k \in 1..Len(inspect.Cmd) |-> <<inspect.Cmd[k]>>],
   skippedBinds |-> SkippedBinds(inspect.Binds)]

\* ================================================================ the state
VARIABLES
  \* runMigration's parameters
  source, target, selection, options,
  \* runMigration: the await it is suspended at, the loop position, its locals
  pc, index, logs, current, totalSteps, inspectItems, tar,
  \* what the caller observes: the settled promise and the progress events sent
  outcome, progress,
  \* every external command or file operation started, in order
  commands,
  \* Date.now()
  clock,
  \* runPipedCommands: the two child processes and the locals of the executor
  procs, sourceExit, targetExit, pipePromise,
  \* createMigrationPlan: the plan it returned, and what Date.now() and
  \* Math.random() gave it
  plan, planSeed, planTick,
  \* buildContainerRunArgs: its inspect parameter and the value it returned
  argsInspect, argsBuilt,
  \* rsyncFileToTarget: the code of the error its catch block caught
  rsyncError,
  \* the cleanup operations of the latest container whose error an empty catch
  \* block has caught
  swallowed,
  \* the networks that exist on the target host
  targetNetworks,
  \* what an earlier execution of runMigration with the same parameters, but
  \* for options.dryRun, sent and returned
  firstRun,
  \* the archive names another execution of runMigration (a second invocation
  \* of the 'migration:run' handler, or a second instance of the application)
  \* has chosen for the container it is processing
  otherTar,
  \* the renderer: its isBusy state, the API calls it has in flight and the
  \* message of the result it shows
  ui

vars ==
  <<source, target, selection, options, pc, index, logs, current, totalSteps,
    inspectItems, tar, outcome, progress, commands, clock,
    procs, sourceExit, targetExit, pipePromise, plan, planSeed, planTick,
    argsInspect, argsBuilt, rsyncError, swallowed, targetNetworks, firstRun, otherTar, ui>>

planVars == <<plan, planSeed, planTick>>
argsVars == <<argsInspect, argsBuilt>>
inputVars == <<source, target, selection, options>>
pipeVars == <<procs, sourceExit, targetExit, pipePromise>>

Pending == [kind |-> "pending", ok |-> FALSE, message |-> <<>>, logs |-> <<>>]
NoTar == [imageTag |-> <<>>, tag |-> <<>>, stamp |-> 0, remote |-> FALSE]
PendingPromise == [state |-> "pending", reason |-> <<>>]
NoProcs == [source |-> "idle", target |-> "idle"]
NoPlan == [built |-> FALSE, steps |-> <<>>, warnings |-> <<>>]
\* the other execution has not reached a container yet
NoOtherTar == [container |-> <<>>, tar |-> NoTar]
\* useState(false) of isBusy; no call has been made
IdleUi == [isBusy |-> FALSE, calls |-> <<>>, result |-> "none"]
NoRun == [ran |-> FALSE, commands |-> <<>>, progress |-> <<>>, outcome |-> Pending,
          inspectItems |-> <<>>]

\* a Docker host always has its predefined networks; the target may have any of
\* the other networks already
TargetNetworkSets == {DEFAULT_NETWORKS \cup extra : extra \in SUBSET (NetworkNames \ DEFAULT_NETWORKS)}

Init ==
  /\ source \in Hosts
  /\ target \in Hosts
  /\ selection \in BoundedSelections
  /\ options \in RunOptions
  /\ pc = "start"
  /\ index = 1
  /\ logs = <<>>
  /\ current = 0
  /\ totalSteps = 0
  /\ inspectItems = <<>>
  /\ tar = NoTar
  /\ outcome = Pending
  /\ progress = <<>>
  /\ commands = <<>>
  /\ clock = 0
  /\ procs = NoProcs
  /\ sourceExit = <<>>
  /\ targetExit = <<>>
  /\ pipePromise = PendingPromise
  /\ plan = NoPlan
  /\ planSeed = 0
  /\ planTick = 0
  /\ argsInspect = EmptyInspect
  /\ argsBuilt = <<>>
  /\ rsyncError = <<>>
  /\ swallowed = {}
  /\ targetNetworks \in TargetNetworkSets
  /\ firstRun = NoRun
  /\ otherTar = NoOtherTar
  /\ ui = IdleUi

\* ------------------------------------------------------ command dispatch
\* runLocalCommand(command, args): what execFile is given.  kind names the call
\* site and subject the resource, for the properties; the program reads neither.
LocalCommand(kind, subject, command, args) ==
  [kind |-> kind, subject |-> subject, command |-> command, args |-> args]

\* runRemoteCommand(host, remoteCommand)
RemoteCommand(kind, subject, host, remoteCommand) ==
  LocalCommand(kind, subject, "ssh", buildSshArgs(host, remoteCommand))

\* runDockerOnTarget(target, args)
DockerOnTarget(kind, subject, args) ==
  IF isRemoteHost(target)
  THEN RemoteCommand(kind, subject, target, buildDockerCommand(args))
  ELSE LocalCommand(kind, subject, "docker", args)

\* ensureNetworkOnTarget(target, name)
ensureNetworkOnTarget(name) ==
  IF isRemoteHost(target)
  THEN RemoteCommand("network create", name, target, <<"docker network create ", name>>)
  ELSE LocalCommand("network create", name, "docker", <<"network", "create", name>>)

\* ensureVolumeOnTarget(target, name)
ensureVolumeOnTarget(name) ==
  IF isRemoteHost(target)
  THEN RemoteCommand("volume create", name, target, <<"docker volume create ", name>>)
  ELSE LocalCommand("volume create", name, "docker", <<"volume", "create", name>>)

\* runDockerCommand(host, args) of the inventory module
runDockerCommand(kind, subject, host, args) ==
  IF isRemoteHost(host)
  THEN RemoteCommand(kind, subject, host,
         <<"docker">> \o Flatten([k \in 1..Len(args) |-> <<" ", args[k]>>]))
  ELSE LocalCommand(kind, subject, "docker", args)

Issue(cmd) == commands' = Append(commands, cmd)

\* --------------------------------------------------- runMigration helpers
NonDefaultCount(names) == Len(SelectSeq(names, LAMBDA n : ~isDefaultNetwork(n)))

\* variant: every selected network is counted, the default ones too
TotalStepsAllNetworks ==
  (IF options.includeNetworks THEN Len(selection.networks) ELSE 0)
  + (IF options.includeVolumes THEN Len(selection.volumes) ELSE 0)
  + (IF options.includeContainers THEN Len(selection.containers) * 5 ELSE 0)

\* variant: four units per container instead of five
TotalStepsFourPerContainer ==
  (IF options.includeNetworks THEN NonDefaultCount(selection.networks) ELSE 0)
  + (IF options.includeVolumes THEN Len(selection.volumes) ELSE 0)
  + (IF options.includeContainers THEN Len(selection.containers) * 4 ELSE 0)

TotalSteps ==
  (IF options.includeNetworks THEN NonDefaultCount(selection.networks) ELSE 0)
  + (IF options.includeVolumes THEN Len(selection.volumes) ELSE 0)
  + (IF options.includeContainers THEN Len(selection.containers) * 5 ELSE 0)

Max(a, b) == IF a >= b THEN a ELSE b

reportProgress(message) ==
  /\ current' = current + 1
  /\ progress' = Append(progress,
       [current |-> current + 1, total |-> Max(totalSteps, 1), message |-> message])

NoProgress == UNCHANGED <<current, progress>>

\* `return { ok, message, logs }`
Return(ok, message) ==
  /\ outcome' = [kind |-> "returned", ok |-> ok, message |-> message, logs |-> logs']
  /\ pc' = "done"

\* the errors that can leave runMigration; an error is [error, detail]
CommandFailed(kind) == [error |-> "Command failed", detail |-> kind]
SyntaxError == [error |-> "SyntaxError", detail |-> "Unexpected end of JSON input"]
\* the error of `docker network create` for a name that exists: execFile's error
\* with the stderr of the command
NetworkExists(name) ==
  [error |-> "Command failed", detail |-> "network create",
   stderr |-> <<"network with name ", name, " already exists">>]
HelperNeedsLocalSource ==
  [error |-> "Error", detail |-> "Helper-container sync requires a local source host."]

\* an exception leaves runMigration: the promise rejects with the error alone
Raise(error) ==
  /\ outcome' = [kind |-> "raised", ok |-> FALSE, message |-> error, logs |-> <<>>]
  /\ pc' = "done"

RemoteVolumeMessage ==
  "Remote source volume sync is not implemented. Use a local source host for volumes."
RemoteContainerMessage ==
  "Automated container migration requires a local source host for now."

\* ------------------------------------------------------------ runMigration
\* variant: a dry run returns before anything is executed
StartHonoursDryRun ==
  /\ pc = "start"
  /\ totalSteps' = TotalSteps
  /\ current' = 0
  /\ logs' = <<>>
  /\ IF options.dryRun
     THEN Return(TRUE, "Dry run finished.")
     ELSE pc' = "networks" /\ UNCHANGED outcome
  /\ index' = 1
  /\ UNCHANGED <<inputVars, inspectItems, tar, progress, commands, clock, pipeVars, planVars,
                 argsVars, firstRun, otherTar, ui, rsyncError, swallowed, targetNetworks>>

Start ==
  /\ pc = "start"
  /\ totalSteps' = TotalSteps
  /\ current' = 0
  /\ logs' = <<>>
  /\ pc' = "networks"
  /\ index' = 1
  /\ UNCHANGED <<inputVars, inspectItems, tar, outcome, progress, commands, clock, pipeVars, planVars, argsVars, firstRun, otherTar, ui,
                 rsyncError, swallowed, targetNetworks>>

\* ---- network phase
\* variant: the loop is left (break) at the first default network
SkipDefaultNetworkStops ==
  /\ pc = "networks"
  /\ options.includeNetworks
  /\ index <= Len(selection.networks)
  /\ isDefaultNetwork(selection.networks[index])
  /\ logs' = Append(logs,
       <<"Skipping default network ", selection.networks[index], " (predefined by Docker).">>)
  /\ index' = Len(selection.networks) + 1
  /\ UNCHANGED <<inputVars, pc, current, totalSteps, inspectItems, tar, outcome, progress,
                 commands, clock, pipeVars, planVars, argsVars, firstRun, otherTar, ui,
                 rsyncError, swallowed, targetNetworks>>

SkipDefaultNetwork ==
  /\ pc = "networks"
  /\ options.includeNetworks
  /\ index <= Len(selection.networks)
  /\ isDefaultNetwork(selection.networks[index])
  /\ logs' = Append(logs,
       <<"Skipping default network ", selection.networks[index], " (predefined by Docker).">>)
  /\ index' = index + 1
  /\ UNCHANGED <<inputVars, pc, current, totalSteps, inspectItems, tar, outcome, progress,
                 commands, clock, pipeVars, planVars, argsVars, firstRun, otherTar, ui,
                 rsyncError, swallowed, targetNetworks>>

\* variant: the network is created without a progress event
CreateNetworkSilent ==
  /\ pc = "networks"
  /\ options.includeNetworks
  /\ index <= Len(selection.networks)
  /\ ~isDefaultNetwork(selection.networks[index])
  /\ NoProgress
  /\ logs' = Append(logs, <<"Creating network ", selection.networks[index], " on target">>)
  /\ Issue(ensureNetworkOnTarget(selection.networks[index]))
  /\ pc' = "awaitNetwork"
  /\ UNCHANGED <<inputVars, index, totalSteps, inspectItems, tar, outcome, clock, pipeVars, planVars, argsVars, firstRun, otherTar, ui,
                 rsyncError, swallowed, targetNetworks>>

\* variant: ensureNetworkOnTarget is called without await
CreateNetworkNotAwaited ==
  /\ pc = "networks"
  /\ options.includeNetworks
  /\ index <= Len(selection.networks)
  /\ ~isDefaultNetwork(selection.networks[index])
  /\ reportProgress(<<"Creating network ", selection.networks[index], " on target">>)
  /\ logs' = Append(logs, <<"Creating network ", selection.networks[index], " on target">>)
  /\ Issue(ensureNetworkOnTarget(selection.networks[index]))
  /\ index' = index + 1
  /\ UNCHANGED <<inputVars, pc, totalSteps, inspectItems, tar, outcome, clock, pipeVars, planVars,
                 argsVars, firstRun, otherTar, ui, rsyncError, swallowed, targetNetworks>>

CreateNetwork ==
  /\ pc = "networks"
  /\ options.includeNetworks
  /\ index <= Len(selection.networks)
  /\ ~isDefaultNetwork(selection.networks[index])
  /\ reportProgress(<<"Creating network ", selection.networks[index], " on target">>)
  /\ logs' = Append(logs, <<"Creating network ", selection.networks[index], " on target">>)
  /\ Issue(ensureNetworkOnTarget(selection.networks[index]))
  /\ pc' = "awaitNetwork"
  /\ UNCHANGED <<inputVars, index, totalSteps, inspectItems, tar, outcome, clock, pipeVars, planVars, argsVars, firstRun, otherTar, ui,
                 rsyncError, swallowed, targetNetworks>>

\* `docker network create` ends: it creates a network that the target does not
\* have; for a name the target has already it exits with 1 ("network with name
\* ... already exists"); and it may fail for any other reason (no daemon, no ssh)
NetworkCreated ==
  /\ pc = "awaitNetwork"
  /\ \/ /\ selection.networks[index] \notin targetNetworks
        /\ targetNetworks' = targetNetworks \cup {selection.networks[index]}
        /\ index' = index + 1
        /\ pc' = "networks"
        /\ UNCHANGED outcome
     \/ /\ selection.networks[index] \in targetNetworks
        /\ Raise(NetworkExists(selection.networks[index]))
        /\ UNCHANGED <<index, targetNetworks>>
     \/ /\ Raise(CommandFailed("network create"))
        /\ UNCHANGED <<index, targetNetworks>>
  /\ UNCHANGED <<inputVars, logs, current, totalSteps, inspectItems, tar, progress,
                 commands, clock, pipeVars, planVars, argsVars, firstRun, otherTar, ui, rsyncError, swallowed>>

NetworksDone ==
  /\ pc = "networks"
  /\ ~options.includeNetworks \/ index > Len(selection.networks)
  /\ pc' = "volumes"
  /\ index' = 1
  /\ UNCHANGED <<inputVars, logs, current, totalSteps, inspectItems, tar, outcome, progress,
                 commands, clock, pipeVars, planVars, argsVars, firstRun, otherTar, ui,
                 rsyncError, swallowed, targetNetworks>>

\* ---- runPipedCommands: the promise executor and its event handlers
\* resolve and reject settle the promise once; later calls change nothing
Resolve(promise) ==
  IF promise.state = "pending" THEN [state |-> "resolved", reason |-> <<>>] ELSE promise

\* variant: a later reject replaces the outcome
RejectOverwrites(promise, reason) == [state |-> "rejected", reason |-> reason]

Reject(promise, reason) ==
  IF promise.state = "pending" THEN [state |-> "rejected", reason |-> reason] ELSE promise

\* `Helper sync failed (source=${sourceExit}, target=${targetExit}).`
HelperSyncFailed(se, te) ==
  [error |-> "Helper sync failed", detail |-> [source |-> se, target |-> te]]
\* the error of an 'error' event
SpawnError(who) == [error |-> "spawn error", detail |-> who]

\* a close event's code: <<c>> for the exit code c, <<>> for null (killed by a signal);
\* the locals sourceExit and targetExit start as null
ExitCodes == {<<c>> : c \in 0..MaxExitCode}
CloseCodes == ExitCodes \cup {<<>>}

\* variant: the failure test written with && instead of ||
checkCompleteBothNonZero(se, te, promise) ==
  IF se = <<>> \/ te = <<>> THEN promise
  ELSE IF se # <<0>> /\ te # <<0>> THEN Reject(promise, HelperSyncFailed(se, te))
  ELSE Resolve(promise)

checkComplete(se, te, promise) ==
  IF se = <<>> \/ te = <<>> THEN promise
  ELSE IF se # <<0>> \/ te # <<0>> THEN Reject(promise, HelperSyncFailed(se, te))
  ELSE Resolve(promise)

\* the executor: both processes are spawned and the handlers registered
runPipedCommands(sourceCommand, targetCommand) ==
  /\ commands' = commands \o <<sourceCommand, targetCommand>>
  /\ procs' = [source |-> "running", target |-> "running"]
  /\ sourceExit' = <<>>
  /\ targetExit' = <<>>
  /\ pipePromise' = PendingPromise

\* variant: the error handler only notes the failure and leaves the rejection to
\* checkComplete
SourceErrorWaits ==
  /\ procs.source = "running"
  /\ procs' = [procs EXCEPT !.source = "failed"]
  /\ UNCHANGED pipePromise
  /\ UNCHANGED <<inputVars, pc, index, logs, current, totalSteps, inspectItems, tar, outcome,
                 progress, commands, clock, sourceExit, targetExit, planVars, argsVars, firstRun, otherTar, ui,
                 rsyncError, swallowed, targetNetworks>>

\* source.on('error'): the process could not be spawned; its close event follows
SourceError ==
  /\ procs.source = "running"
  /\ procs' = [procs EXCEPT !.source = "failed"]
  /\ pipePromise' = Reject(pipePromise, SpawnError("source"))
  /\ UNCHANGED <<inputVars, pc, index, logs, current, totalSteps, inspectItems, tar, outcome,
                 progress, commands, clock, sourceExit, targetExit, planVars, argsVars, firstRun, otherTar, ui,
                 rsyncError, swallowed, targetNetworks>>

TargetError ==
  /\ procs.target = "running"
  /\ procs' = [procs EXCEPT !.target = "failed"]
  /\ pipePromise' = Reject(pipePromise, SpawnError("target"))
  /\ UNCHANGED <<inputVars, pc, index, logs, current, totalSteps, inspectItems, tar, outcome,
                 progress, commands, clock, sourceExit, targetExit, planVars, argsVars, firstRun, otherTar, ui,
                 rsyncError, swallowed, targetNetworks>>

\* source.on('close', code)
SourceClose ==
  /\ procs.source \in {"running", "failed"}
  /\ \E code \in CloseCodes :
       /\ procs.source = "failed" => code \notin {<<>>, <<0>>}
       /\ sourceExit' = code
       /\ pipePromise' = checkComplete(code, targetExit, pipePromise)
  /\ procs' = [procs EXCEPT !.source = IF @ = "failed" THEN "closed after error" ELSE "closed"]
  /\ UNCHANGED <<inputVars, pc, index, logs, current, totalSteps, inspectItems, tar, outcome,
                 progress, commands, clock, targetExit, planVars, argsVars, firstRun, otherTar, ui,
                 rsyncError, swallowed, targetNetworks>>

\* target.on('close', code)
TargetClose ==
  /\ procs.target \in {"running", "failed"}
  /\ \E code \in CloseCodes :
       /\ procs.target = "failed" => code \notin {<<>>, <<0>>}
       /\ targetExit' = code
       /\ pipePromise' = checkComplete(sourceExit, code, pipePromise)
  /\ procs' = [procs EXCEPT !.target = IF @ = "failed" THEN "closed after error" ELSE "closed"]
  /\ UNCHANGED <<inputVars, pc, index, logs, current, totalSteps, inspectItems, tar, outcome,
                 progress, commands, clock, sourceExit, planVars, argsVars, firstRun, otherTar, ui,
                 rsyncError, swallowed, targetNetworks>>

\* ---- volume phase
\* variant: the volume phase is left out with a log entry, without returning
RemoteSourceVolumesGoesOn ==
  /\ pc = "volumes"
  /\ options.includeVolumes
  /\ isRemoteHost(source)
  /\ logs' = Append(logs, <<RemoteVolumeMessage>>)
  /\ pc' = "containers"
  /\ index' = 1
  /\ UNCHANGED <<inputVars, current, totalSteps, inspectItems, tar, outcome, progress,
                 commands, clock, pipeVars, planVars, argsVars, firstRun, otherTar, ui,
                 rsyncError, swallowed, targetNetworks>>

\* variant: the result carries an empty log
RemoteSourceVolumesDropsLogs ==
  /\ pc = "volumes"
  /\ options.includeVolumes
  /\ isRemoteHost(source)
  /\ logs' = <<>>
  /\ Return(FALSE, RemoteVolumeMessage)
  /\ UNCHANGED <<inputVars, index, current, totalSteps, inspectItems, tar, progress,
                 commands, clock, pipeVars, planVars, argsVars, firstRun, otherTar, ui,
                 rsyncError, swallowed, targetNetworks>>

RemoteSourceVolumes ==
  /\ pc = "volumes"
  /\ options.includeVolumes
  /\ isRemoteHost(source)
  /\ UNCHANGED logs
  /\ Return(FALSE, RemoteVolumeMessage)
  /\ UNCHANGED <<inputVars, index, current, totalSteps, inspectItems, tar, progress,
                 commands, clock, pipeVars, planVars, argsVars, firstRun, otherTar, ui,
                 rsyncError, swallowed, targetNetworks>>

PrepareVolume ==
  /\ pc = "volumes"
  /\ options.includeVolumes
  /\ ~isRemoteHost(source)
  /\ index <= Len(selection.volumes)
  /\ reportProgress(<<"Syncing volume ", selection.volumes[index], " to target">>)
  /\ logs' = Append(logs, <<"Preparing volume ", selection.volumes[index], " on target">>)
  /\ Issue(ensureVolumeOnTarget(selection.volumes[index]))
  /\ pc' = "awaitVolumeCreate"
  /\ UNCHANGED <<inputVars, index, totalSteps, inspectItems, tar, outcome, clock, pipeVars, planVars, argsVars, firstRun, otherTar, ui,
                 rsyncError, swallowed, targetNetworks>>

\* syncVolumeWithHelper(source, target, name), up to its await
syncVolumeWithHelper(name) ==
  IF isRemoteHost(source)
  THEN /\ Raise(HelperNeedsLocalSource)
       /\ UNCHANGED <<commands, pipeVars>>
  ELSE /\ runPipedCommands(
            LocalCommand("volume pack", name, "docker", buildDockerTarArgs(name)),
            IF isRemoteHost(target)
            THEN LocalCommand("volume unpack", name, "ssh",
                              buildSshArgs(target, buildDockerUntarCommand(name)))
            ELSE LocalCommand("volume unpack", name, "docker", buildDockerUntarArgs(name)))
       /\ pc' = "awaitSync"
       /\ UNCHANGED outcome

VolumeCreated ==
  /\ pc = "awaitVolumeCreate"
  /\ \E ok \in BOOLEAN :
       IF ok
       THEN /\ logs' = Append(logs, <<"Syncing volume data via helper container stream.">>)
            /\ syncVolumeWithHelper(selection.volumes[index])
       ELSE /\ Raise(CommandFailed("volume create"))
            /\ UNCHANGED <<logs, commands, pipeVars>>
  /\ UNCHANGED <<inputVars, index, current, totalSteps, inspectItems, tar, progress, clock,
                 planVars, argsVars, firstRun, otherTar, ui,
                 rsyncError, swallowed, targetNetworks>>

\* the await on runPipedCommands resumes once its promise has settled
SyncSettled ==
  /\ pc = "awaitSync"
  /\ pipePromise.state # "pending"
  /\ IF pipePromise.state = "resolved"
     THEN /\ index' = index + 1
          /\ pc' = "volumes"
          /\ UNCHANGED outcome
     ELSE /\ Raise(pipePromise.reason)
          /\ UNCHANGED index
  /\ UNCHANGED <<inputVars, logs, current, totalSteps, inspectItems, tar, progress,
                 commands, clock, pipeVars, planVars, argsVars, firstRun, otherTar, ui,
                 rsyncError, swallowed, targetNetworks>>

VolumesDone ==
  /\ pc = "volumes"
  /\ \/ ~options.includeVolumes
     \/ ~isRemoteHost(source) /\ index > Len(selection.volumes)
  /\ pc' = "containers"
  /\ index' = 1
  /\ UNCHANGED <<inputVars, logs, current, totalSteps, inspectItems, tar, outcome, progress,
                 commands, clock, pipeVars, planVars, argsVars, firstRun, otherTar, ui,
                 rsyncError, swallowed, targetNetworks>>

\* ---- container phase
RemoteSourceContainers ==
  /\ pc = "containers"
  /\ options.includeContainers
  /\ isRemoteHost(source)
  /\ UNCHANGED logs
  /\ Return(FALSE, RemoteContainerMessage)
  /\ UNCHANGED <<inputVars, index, current, totalSteps, inspectItems, tar, progress,
                 commands, clock, pipeVars, planVars, argsVars, firstRun, otherTar, ui,
                 rsyncError, swallowed, targetNetworks>>

\* inspectContainers(source, selection.containers): no name, no command, empty text
\* (which JSON.parse then rejects); otherwise `docker inspect` is awaited
InspectContainers ==
  /\ pc = "containers"
  /\ options.includeContainers
  /\ ~isRemoteHost(source)
  /\ IF selection.containers = <<>>
     THEN /\ IF JSONParse(<<>>).ok
             THEN pc' = "containerLoop" /\ UNCHANGED outcome
             ELSE Raise(SyntaxError)
          /\ UNCHANGED commands
     ELSE /\ Issue(runDockerCommand("inspect", selection.containers, source,
                                    <<"inspect">> \o selection.containers))
          /\ pc' = "awaitInspect"
          /\ UNCHANGED outcome
  /\ UNCHANGED <<inputVars, index, logs, current, totalSteps, inspectItems, tar, progress,
                 clock, pipeVars, planVars, argsVars, firstRun, otherTar, ui,
                 rsyncError, swallowed, targetNetworks>>

\* what a successful `docker inspect` prints: one item per requested name; an item
\* describes the container of that name, or (a name that is an id or an alias)
\* a container whose Name is something else
InspectOutputs(names) ==
  {JSONStringify([k \in 1..Len(names) |->
      IF names[k] \in found THEN DockerInspect(names[k])
      ELSE [EmptyInspect EXCEPT !.Name = <<"/", "x">>]]) : found \in SUBSET Range(names)}

Inspected ==
  /\ pc = "awaitInspect"
  /\ \E ok \in BOOLEAN :
       IF ok
       THEN \E raw \in InspectOutputs(selection.containers) :
              IF JSONParse(raw).ok
              THEN /\ inspectItems' = JSONParse(raw).value
                   /\ pc' = "containerLoop"
                   /\ UNCHANGED outcome
              ELSE /\ Raise(SyntaxError)
                   /\ UNCHANGED inspectItems
       ELSE /\ Raise(CommandFailed("inspect"))
            /\ UNCHANGED inspectItems
  /\ index' = 1
  /\ UNCHANGED <<inputVars, logs, current, totalSteps, tar, progress, commands, clock, pipeVars, planVars, argsVars, firstRun, otherTar, ui,
                 rsyncError, swallowed, targetNetworks>>

\* variant: the loop runs over the selected containers from the last to the first
ContainerFromTheEnd == selection.containers[Len(selection.containers) + 1 - index]

Container == selection.containers[index]

\* variant: the loop is left (break) where the code goes on (continue)
SkipContainerBreaks ==
  /\ pc = "containerLoop"
  /\ index <= Len(selection.containers)
  /\ ~HasInspect(inspectItems, Container)
  /\ reportProgress(<<"Committing ", Container>>)
  /\ logs' = Append(logs, <<"Skipping ", Container, ": unable to read container configuration.">>)
  /\ index' = Len(selection.containers) + 1
  /\ UNCHANGED <<inputVars, pc, totalSteps, inspectItems, tar, outcome, commands, clock,
                 pipeVars, planVars, argsVars, firstRun, otherTar, ui,
                 rsyncError, swallowed, targetNetworks>>

\* variant: a skipped container sends no progress event
SkipContainerSilent ==
  /\ pc = "containerLoop"
  /\ index <= Len(selection.containers)
  /\ ~HasInspect(inspectItems, Container)
  /\ NoProgress
  /\ logs' = Append(logs, <<"Skipping ", Container, ": unable to read container configuration.">>)
  /\ index' = index + 1
  /\ swallowed' = {}
  /\ UNCHANGED <<inputVars, pc, totalSteps, inspectItems, tar, outcome, commands, clock, pipeVars, planVars, argsVars, firstRun, otherTar, ui,
                 rsyncError, targetNetworks>>

SkipContainer ==
  /\ pc = "containerLoop"
  /\ index <= Len(selection.containers)
  /\ ~HasInspect(inspectItems, Container)
  /\ reportProgress(<<"Committing ", Container>>)
  /\ logs' = Append(logs, <<"Skipping ", Container, ": unable to read container configuration.">>)
  /\ index' = index + 1
  /\ swallowed' = {}
  /\ UNCHANGED <<inputVars, pc, totalSteps, inspectItems, tar, outcome, commands, clock, pipeVars, planVars, argsVars, firstRun, otherTar, ui,
                 rsyncError, targetNetworks>>

\* `${sanitizeImageTag(container)}-${Date.now()}.tar` is the record [tag, stamp];
\* localTar is that name under os.tmpdir(), targetTar the same path when the
\* target is local and the name under /tmp otherwise
TarFor(container, now) ==
  [imageTag |-> <<"docker-copy/", sanitizeImageTag(container), ":migrated">>,
   tag |-> sanitizeImageTag(container), stamp |-> now, remote |-> isRemoteHost(target)]

localTar == <<"tmpdir/", tar.tag, "-", tar.stamp, ".tar">>
targetTar == IF tar.remote THEN <<"/tmp/", tar.tag, "-", tar.stamp, ".tar">> ELSE localTar

CommitContainer ==
  /\ pc = "containerLoop"
  /\ index <= Len(selection.containers)
  /\ HasInspect(inspectItems, Container)
  /\ reportProgress(<<"Committing ", Container>>)
  /\ \E now \in clock..MaxClock :
       /\ clock' = now
       /\ tar' = TarFor(Container, now)
  /\ logs' = Append(logs, <<"Committing ", Container, " to ", tar'.imageTag>>)
  /\ Issue(LocalCommand("commit", Container, "docker", <<"commit", Container, tar'.imageTag>>))
  /\ pc' = "awaitCommit"
  /\ swallowed' = {}
  /\ UNCHANGED <<inputVars, index, totalSteps, inspectItems, outcome, pipeVars, planVars, argsVars, firstRun, otherTar, ui,
                 rsyncError, targetNetworks>>

Committed ==
  /\ pc = "awaitCommit"
  /\ \E ok \in BOOLEAN :
       IF ok
       THEN /\ reportProgress(<<"Saving image ", Container>>)
            /\ logs' = Append(logs, <<"Saving ", tar.imageTag, " to ", localTar>>)
            /\ Issue(LocalCommand("save", Container, "docker",
                                  <<"save", tar.imageTag, "-o", localTar>>))
            /\ pc' = "awaitSave"
            /\ UNCHANGED outcome
       ELSE /\ Raise(CommandFailed("commit"))
            /\ NoProgress
            /\ UNCHANGED <<logs, commands>>
  /\ UNCHANGED <<inputVars, index, totalSteps, inspectItems, tar, clock, pipeVars, planVars, argsVars, firstRun, otherTar, ui,
                 rsyncError, swallowed, targetNetworks>>

\* rsyncFileToTarget(localTar, targetTar, target), up to its first await
SshPrefix == <<"ssh">> \o SubSeq(buildSshArgs(target, "true"), 1, Len(buildSshArgs(target, "true")) - 3)
SshRemoteHost == buildSshArgs(target, "true")[Len(buildSshArgs(target, "true")) - 2]

Saved ==
  /\ pc = "awaitSave"
  /\ \E ok \in BOOLEAN :
       IF ok
       THEN /\ reportProgress(<<"Transferring image ", Container>>)
            /\ logs' = Append(logs, <<"Transferring image tar to target">>)
            /\ IF ~isRemoteHost(target)
               THEN /\ Issue(LocalCommand("transfer", Container, "fs.copyFile",
                                          <<localTar, targetTar>>))
                    /\ pc' = "awaitCopy"
               ELSE /\ Issue(LocalCommand("transfer", Container, "rsync",
                               <<"-az", "-e", SshPrefix, localTar,
                                 <<SshRemoteHost, ":", targetTar>>>>))
                    /\ pc' = "awaitRsync"
            /\ rsyncError' = <<>>
            /\ UNCHANGED outcome
       ELSE /\ Raise(CommandFailed("save"))
            /\ NoProgress
            /\ UNCHANGED <<logs, commands, rsyncError>>
  /\ UNCHANGED <<inputVars, index, totalSteps, inspectItems, tar, clock, pipeVars, planVars, argsVars, firstRun, otherTar, ui,
                 swallowed, targetNetworks>>

\* variant: the image is not loaded, the container is created at once
LoadImageSkipped ==
  /\ reportProgress(<<"Creating container ", Container, " on target">>)
  /\ logs' = Append(logs, <<"Creating container ", Container, " on target">>)
  /\ Issue(DockerOnTarget("create", Container,
             buildContainerRunArgs(Container, InspectOf(inspectItems, Container),
                                   tar.imageTag).args))
  /\ pc' = "awaitCreate"
  /\ UNCHANGED outcome

\* the transfer has succeeded: runMigration goes on with the load
LoadImage ==
  /\ reportProgress(<<"Loading image ", Container, " on target">>)
  /\ logs' = Append(logs, <<"Loading image ", tar.imageTag, " on target">>)
  /\ Issue(DockerOnTarget("load", Container, <<"load", "-i", targetTar>>))
  /\ pc' = "awaitLoad"
  /\ UNCHANGED outcome

Copied ==
  /\ pc = "awaitCopy"
  /\ \E ok \in BOOLEAN :
       IF ok THEN LoadImage
       ELSE /\ Raise(CommandFailed("fs.copyFile"))
            /\ NoProgress
            /\ UNCHANGED <<logs, commands>>
  /\ UNCHANGED <<inputVars, index, totalSteps, inspectItems, tar, clock, pipeVars, planVars, argsVars, firstRun, otherTar, ui,
                 rsyncError, swallowed, targetNetworks>>

\* how execFile('rsync') ends: "ok"; or an error whose code is 'ENOENT' (no such
\* program), the exit status ("exit", a number other than 0) or null ("signal")
RsyncResults == {"ok", "ENOENT", "exit", "signal"}

ScpArgs ==
  (IF target.port # 0 THEN <<"-P", target.port>> ELSE <<>>)
  \o (IF target.identityFile # "" THEN <<"-i", target.identityFile>> ELSE <<>>)
  \o <<localTar, <<target.user, "@", target.host, ":", targetTar>>>>

\* the catch block keeps the error in err; err.code is 'ENOENT', the exit status,
\* or null after a signal: `if (err.code && err.code !== 'ENOENT') throw error`
Rsynced ==
  /\ pc = "awaitRsync"
  /\ \E result \in RsyncResults :
       IF result = "ok"
       THEN /\ LoadImage
            /\ UNCHANGED rsyncError
       ELSE /\ rsyncError' = <<result>>
            /\ IF result = "exit"
               THEN /\ Raise(CommandFailed("rsync"))
                    /\ NoProgress
                    /\ UNCHANGED <<logs, commands>>
               ELSE /\ Issue(LocalCommand("transfer", Container, "scp", ScpArgs))
                    /\ pc' = "awaitScp"
                    /\ NoProgress
                    /\ UNCHANGED <<logs, outcome>>
  /\ UNCHANGED <<inputVars, index, totalSteps, inspectItems, tar, clock, pipeVars, planVars, argsVars, firstRun, otherTar, ui,
                 swallowed, targetNetworks>>

\* scp has ended and rsyncFileToTarget, with its err, is left
Scped ==
  /\ pc = "awaitScp"
  /\ \E ok \in BOOLEAN :
       IF ok THEN LoadImage
       ELSE /\ Raise(CommandFailed("scp"))
            /\ NoProgress
            /\ UNCHANGED <<logs, commands>>
  /\ rsyncError' = <<>>
  /\ UNCHANGED <<inputVars, index, totalSteps, inspectItems, tar, clock, pipeVars, planVars, argsVars, firstRun, otherTar, ui,
                 swallowed, targetNetworks>>

SkippedBindLogs(container, skippedBinds) ==
  IF Len(skippedBinds) > 0
  THEN << <<"Skipped ", Len(skippedBinds), " bind mount(s) with Windows paths for ", container,
            ". Update mounts manually on the target.">>,
          <<"Skipped mounts: ", skippedBinds>> >>
  ELSE <<>>

Loaded ==
  /\ pc = "awaitLoad"
  /\ \E ok \in BOOLEAN :
       IF ok
       THEN LET built == buildContainerRunArgs(Container, InspectOf(inspectItems, Container),
                                               tar.imageTag)
            IN  /\ reportProgress(<<"Creating container ", Container, " on target">>)
                /\ logs' = Append(logs, <<"Creating container ", Container, " on target">>)
                            \o SkippedBindLogs(Container, built.skippedBinds)
                /\ Issue(DockerOnTarget("create", Container, built.args))
                /\ pc' = "awaitCreate"
                /\ UNCHANGED outcome
       ELSE /\ Raise(CommandFailed("load"))
            /\ NoProgress
            /\ UNCHANGED <<logs, commands>>
  /\ UNCHANGED <<inputVars, index, totalSteps, inspectItems, tar, clock, pipeVars, planVars, argsVars, firstRun, otherTar, ui,
                 rsyncError, swallowed, targetNetworks>>

Created ==
  /\ pc = "awaitCreate"
  /\ \E ok \in BOOLEAN :
       IF ok
       THEN /\ Issue(LocalCommand("unlink", Container, "fs.unlink", <<localTar>>))
            /\ pc' = "awaitUnlink"
            /\ UNCHANGED outcome
       ELSE /\ Raise(CommandFailed("create"))
            /\ UNCHANGED commands
  /\ UNCHANGED <<inputVars, index, logs, current, totalSteps, inspectItems, tar, progress,
                 clock, pipeVars, planVars, argsVars, firstRun, otherTar, ui,
                 rsyncError, swallowed, targetNetworks>>

\* variant: the unlink is awaited without a try block
UnlinkedThrows ==
  /\ pc = "awaitUnlink"
  /\ \E ok \in BOOLEAN :
       IF ok
       THEN /\ IF isRemoteHost(target)
               THEN /\ Issue(RemoteCommand("remote rm", Container, target,
                                           <<"rm -f ">> \o shellEscape(targetTar)))
                    /\ pc' = "awaitRemoteRm"
                    /\ UNCHANGED index
               ELSE /\ index' = index + 1
                    /\ pc' = "containerLoop"
                    /\ UNCHANGED commands
            /\ UNCHANGED <<outcome, swallowed>>
       ELSE /\ Raise(CommandFailed("unlink"))
            /\ swallowed' = swallowed \cup {"unlink"}
            /\ UNCHANGED <<index, commands>>
  /\ UNCHANGED <<inputVars, logs, current, totalSteps, inspectItems, tar, progress,
                 clock, pipeVars, planVars, argsVars, firstRun, otherTar, ui, rsyncError, targetNetworks>>

\* fs.unlink has ended, with or without an error (the catch block is empty)
Unlinked ==
  /\ pc = "awaitUnlink"
  /\ \E ok \in BOOLEAN :
       /\ swallowed' = IF ok THEN swallowed ELSE swallowed \cup {"unlink"}
       /\ IF isRemoteHost(target)
          THEN /\ Issue(RemoteCommand("remote rm", Container, target,
                                      <<"rm -f ">> \o shellEscape(targetTar)))
               /\ pc' = "awaitRemoteRm"
               /\ UNCHANGED index
          ELSE /\ index' = index + 1
               /\ pc' = "containerLoop"
               /\ UNCHANGED commands
  /\ UNCHANGED outcome
  /\ UNCHANGED <<inputVars, logs, current, totalSteps, inspectItems, tar, progress,
                 clock, pipeVars, planVars, argsVars, firstRun, otherTar, ui, rsyncError, targetNetworks>>

\* the remote rm has ended, with or without an error (the catch block is empty)
RemoteRemoved ==
  /\ pc = "awaitRemoteRm"
  /\ \E ok \in BOOLEAN :
       /\ swallowed' = IF ok THEN swallowed ELSE swallowed \cup {"remote rm"}
       /\ index' = index + 1
       /\ pc' = "containerLoop"
  /\ UNCHANGED outcome
  /\ UNCHANGED <<inputVars, logs, current, totalSteps, inspectItems, tar, progress,
                 commands, clock, pipeVars, planVars, argsVars, firstRun, otherTar, ui, rsyncError, targetNetworks>>

ContainersDone ==
  /\ \/ pc = "containers" /\ ~options.includeContainers
     \/ pc = "containerLoop" /\ index > Len(selection.containers)
  /\ pc' = "finish"
  /\ UNCHANGED <<inputVars, index, logs, current, totalSteps, inspectItems, tar, outcome,
                 progress, commands, clock, pipeVars, planVars, argsVars, firstRun, otherTar, ui,
                 rsyncError, swallowed, targetNetworks>>

\* ---- the volume inspection and the final result
SuccessMessage ==
  IF options.includeContainers
  THEN "Migration finished with container steps pending manual execution."
  ELSE "Migration finished successfully."

\* variant: the volume inspection is run whenever a volume is selected
FinishInspectsSelected ==
  /\ pc = "finish"
  /\ IF selection.volumes # <<>>
     THEN /\ Issue(runDockerCommand("volume inspect", selection.volumes, source,
                                    <<"volume", "inspect">> \o selection.volumes))
          /\ pc' = "awaitVolumeInspect"
          /\ UNCHANGED <<logs, outcome>>
     ELSE /\ logs' = IF options.includeVolumes
                     THEN logs \o << <<"Volume inspection data captured.">>, <<"">> >>
                     ELSE logs
          /\ Return(TRUE, SuccessMessage)
          /\ UNCHANGED commands
  /\ UNCHANGED <<inputVars, index, current, totalSteps, inspectItems, tar, progress, clock,
                 pipeVars, planVars, argsVars, firstRun, otherTar, ui,
                 rsyncError, swallowed, targetNetworks>>

Finish ==
  /\ pc = "finish"
  /\ IF options.includeVolumes /\ selection.volumes # <<>>
     THEN /\ Issue(runDockerCommand("volume inspect", selection.volumes, source,
                                    <<"volume", "inspect">> \o selection.volumes))
          /\ pc' = "awaitVolumeInspect"
          /\ UNCHANGED <<logs, outcome>>
     ELSE /\ logs' = IF options.includeVolumes
                     THEN logs \o << <<"Volume inspection data captured.">>, <<"">> >>
                     ELSE logs
          /\ Return(TRUE, SuccessMessage)
          /\ UNCHANGED commands
  /\ UNCHANGED <<inputVars, index, current, totalSteps, inspectItems, tar, progress, clock,
                 pipeVars, planVars, argsVars, firstRun, otherTar, ui,
                 rsyncError, swallowed, targetNetworks>>

VolumesInspected ==
  /\ pc = "awaitVolumeInspect"
  /\ \E ok \in BOOLEAN :
       IF ok
       THEN /\ logs' = logs \o << <<"Volume inspection data captured.">>, <<"stdout of ", "volume inspect">> >>
            /\ Return(TRUE, SuccessMessage)
       ELSE /\ Raise(CommandFailed("volume inspect"))
            /\ UNCHANGED logs
  /\ UNCHANGED <<inputVars, index, current, totalSteps, inspectItems, tar, progress, commands,
                 clock, pipeVars, planVars, argsVars, firstRun, otherTar, ui,
                 rsyncError, swallowed, targetNetworks>>

Next ==
  \/ Start
  \/ SkipDefaultNetwork \/ CreateNetwork \/ NetworkCreated \/ NetworksDone
  \/ RemoteSourceVolumes \/ PrepareVolume \/ VolumeCreated \/ SyncSettled \/ VolumesDone
  \/ SourceError \/ TargetError \/ SourceClose \/ TargetClose
  \/ RemoteSourceContainers \/ InspectContainers \/ Inspected
  \/ SkipContainer \/ CommitContainer \/ Committed \/ Saved \/ Copied \/ Rsynced \/ Scped
  \/ Loaded \/ Created \/ Unlinked \/ RemoteRemoved \/ ContainersDone
  \/ Finish \/ VolumesInspected

Spec == Init /\ [][Next]_vars

\* ============================================ the renderer and options.dryRun
\* the renderer before "Run migration" is clicked (isBusy is false); afterwards
\* runMigration is executed, and executed once more by a second invocation of
\* the 'migration:run' handler with options.dryRun flipped
isSelectionEmpty ==
  Len(selection.containers) = 0 /\ Len(selection.volumes) = 0 /\ Len(selection.networks) = 0

\* the selections of the executions that are run twice
MaxTwinSelected == 1
MaxTwinContainers == 1

TwinSelections ==
  {s \in BoundedSelections :
     /\ Len(s.containers) + Len(s.volumes) + Len(s.networks) <= MaxTwinSelected
     /\ Len(s.containers) <= MaxTwinContainers}

DryRunInit ==
  /\ source \in Hosts
  /\ target \in Hosts
  /\ selection \in TwinSelections
  /\ options \in MigrationOptions
  /\ pc = "ui"
  /\ index = 1
  /\ logs = <<>>
  /\ current = 0
  /\ totalSteps = 0
  /\ inspectItems = <<>>
  /\ tar = NoTar
  /\ outcome = Pending
  /\ progress = <<>>
  /\ commands = <<>>
  /\ clock = 0
  /\ procs = NoProcs
  /\ sourceExit = <<>>
  /\ targetExit = <<>>
  /\ pipePromise = PendingPromise
  /\ plan = NoPlan
  /\ planSeed = 0
  /\ planTick = 0
  /\ argsInspect = EmptyInspect
  /\ argsBuilt = <<>>
  /\ rsyncError = <<>>
  /\ swallowed = {}
  /\ targetNetworks \in TargetNetworkSets
  /\ firstRun = NoRun
  /\ otherTar = NoOtherTar
  /\ ui = IdleUi

\* the "Dry run" checkbox
ToggleDryRun ==
  /\ pc = "ui"
  /\ options' = [options EXCEPT !.dryRun = ~@]
  /\ UNCHANGED <<source, target, selection, pc, index, logs, current, totalSteps, inspectItems,
                 tar, outcome, progress, commands, clock, pipeVars, planVars, argsVars,
                 rsyncError, swallowed, targetNetworks, firstRun, otherTar, ui>>

\* variant: the button is disabled only for an empty selection
handleRunMigrationAnyOptions ==
  /\ pc = "ui"
  /\ ~(ui.isBusy \/ isSelectionEmpty)
  /\ \E api \in BOOLEAN :
       IF api
       THEN /\ ui' = [isBusy |-> TRUE, calls |-> Append(ui.calls, "runMigration"), result |-> "none"]
            /\ pc' = "start"
       ELSE /\ ui' = [ui EXCEPT !.result = "Migration failed to start."]
            /\ UNCHANGED pc
  /\ UNCHANGED <<inputVars, index, logs, current, totalSteps, inspectItems,
                 tar, outcome, progress, commands, clock, pipeVars, planVars, argsVars,
                 rsyncError, swallowed, targetNetworks, firstRun, otherTar>>

\* a click on "Run migration", which is
\* disabled={isBusy || isSelectionEmpty || options.dryRun}: setIsBusy(true) and
\* the call of api.runMigration; without the preload API the handler throws,
\* catches and ends within the click
handleRunMigration ==
  /\ pc = "ui"
  /\ ~(ui.isBusy \/ isSelectionEmpty \/ options.dryRun)
  /\ \E api \in BOOLEAN :
       IF api
       THEN /\ ui' = [isBusy |-> TRUE, calls |-> Append(ui.calls, "runMigration"), result |-> "none"]
            /\ pc' = "start"
       ELSE /\ ui' = [ui EXCEPT !.result = "Migration failed to start."]
            /\ UNCHANGED pc
  /\ UNCHANGED <<inputVars, index, logs, current, totalSteps, inspectItems,
                 tar, outcome, progress, commands, clock, pipeVars, planVars, argsVars,
                 rsyncError, swallowed, targetNetworks, firstRun, otherTar>>

NetworksCreatedBy(cmds) ==
  {cmds[k].subject : k \in {j \in 1..Len(cmds) : cmds[j].kind = "network create"}}

\* the first execution has returned; the handler is invoked again in the
\* environment the first execution started in, with the same parameters but for
\* options.dryRun
RunTwin ==
  /\ pc = "done"
  /\ ~firstRun.ran
  /\ outcome.kind = "returned"
  /\ firstRun' = [ran |-> TRUE, commands |-> commands, progress |-> progress,
                  outcome |-> outcome, inspectItems |-> inspectItems]
  /\ options' = [options EXCEPT !.dryRun = ~@]
  /\ targetNetworks' = targetNetworks \ NetworksCreatedBy(commands)
  /\ pc' = "start"
  /\ index' = 1
  /\ logs' = <<>>
  /\ current' = 0
  /\ totalSteps' = 0
  /\ inspectItems' = <<>>
  /\ tar' = NoTar
  /\ outcome' = Pending
  /\ progress' = <<>>
  /\ commands' = <<>>
  /\ clock' = 0
  /\ procs' = NoProcs
  /\ sourceExit' = <<>>
  /\ targetExit' = <<>>
  /\ pipePromise' = PendingPromise
  /\ rsyncError' = <<>>
  /\ swallowed' = {}
  /\ UNCHANGED <<source, target, selection, planVars, argsVars, otherTar, ui>>

DryRunNext == ToggleDryRun \/ handleRunMigration \/ RunTwin \/ Next

DryRunSpec == DryRunInit /\ [][DryRunNext]_vars

\* ===================================================== createMigrationPlan
\* bounds of what the plan builder reads from its environment: Math.random()
\* .toString(36).slice(2, 8) takes RandomSlices values, and the millisecond of
\* Date.now() may change once, after at most MaxTick calls of createStep
RandomSlices == 3
MaxTick == 2

\* the k-th call of createStep (k = 0, 1, ...) of one createMigrationPlan reads
\* Date.now() and draws from the generator behind Math.random()
DateNow(now, tick, k) == IF k < tick THEN now ELSE now + 1
MathRandomSlice(seed, k) == (seed + k) % RandomSlices

createStep(label, command, runOn, now, random) ==
  [id |-> <<now, "-", random>>, label |-> label, command |-> command, runOn |-> runOn]

\* the arguments of the createStep calls, in call order
NetworkStepArgs(networks) ==
  Flatten([k \in 1..Len(networks) |->
    IF isDefaultNetwork(networks[k]) THEN <<>>
    ELSE << [label |-> <<"Create network ", networks[k], " on target">>,
             command |-> <<"docker network create ", networks[k]>>,
             runOn |-> "target"] >>])

NetworkWarnings(networks) ==
  Flatten([k \in 1..Len(networks) |->
    IF isDefaultNetwork(networks[k])
    THEN << <<"Skipping default network \"", networks[k],
              "\". Predefined Docker networks are not created manually.">> >>
    ELSE <<>>])

\* variant: every ensure step is pushed before the first sync step
VolumeStepArgsEnsureFirst(volumes) ==
  [k \in 1..Len(volumes) |->
     [label |-> <<"Ensure volume ", volumes[k], " exists on target">>,
      command |-> <<"docker volume create ", volumes[k]>>,
      runOn |-> "target"]]
  \o [k \in 1..Len(volumes) |->
     [label |-> <<"Sync volume ", volumes[k], " data to target (helper container)">>,
      command |-> <<"docker run --rm -v ", volumes[k],
                    ":/from alpine sh -c \"tar -cpf - -C /from .\" | ssh <target> docker run --rm -i -v ",
                    volumes[k], ":/to alpine sh -c \"tar -xpf - -C /to\"">>,
      runOn |-> "local"]]

VolumeStepArgs(volumes) ==
  Flatten([k \in 1..Len(volumes) |->
    << [label |-> <<"Ensure volume ", volumes[k], " exists on target">>,
        command |-> <<"docker volume create ", volumes[k]>>,
        runOn |-> "target"],
       [label |-> <<"Sync volume ", volumes[k], " data to target (helper container)">>,
        command |-> <<"docker run --rm -v ", volumes[k],
                      ":/from alpine sh -c \"tar -cpf - -C /from .\" | ssh <target> docker run --rm -i -v ",
                      volumes[k], ":/to alpine sh -c \"tar -xpf - -C /to\"">>,
        runOn |-> "local"] >>])

\* variant: the load step is pushed before the transfer step
ContainerStepArgsLoadFirst(containers) ==
  Flatten([k \in 1..Len(containers) |->
    << [label |-> <<"Commit container ", containers[k], " to an image on source">>,
        command |-> <<"docker commit ", containers[k], " ", containers[k], ":migrated">>,
        runOn |-> "source"],
       [label |-> <<"Save image ", containers[k], ":migrated to tar">>,
        command |-> <<"docker save ", containers[k], ":migrated -o ", containers[k], "-image.tar">>,
        runOn |-> "source"],
       [label |-> <<"Load image on target">>,
        command |-> <<"docker load -i ~/", containers[k], "-image.tar">>,
        runOn |-> "target"],
       [label |-> <<"Transfer image tar to target">>,
        command |-> <<"rsync -az -e \"ssh\" ", containers[k], "-image.tar <targetHost>:~/">>,
        runOn |-> "local"],
       [label |-> <<"Recreate container ", containers[k], " on target">>,
        command |-> <<"docker run --name ", containers[k], " ", containers[k], ":migrated">>,
        runOn |-> "target"] >>])

ContainerStepArgs(containers) ==
  Flatten([k \in 1..Len(containers) |->
    << [label |-> <<"Commit container ", containers[k], " to an image on source">>,
        command |-> <<"docker commit ", containers[k], " ", containers[k], ":migrated">>,
        runOn |-> "source"],
       [label |-> <<"Save image ", containers[k], ":migrated to tar">>,
        command |-> <<"docker save ", containers[k], ":migrated -o ", containers[k], "-image.tar">>,
        runOn |-> "source"],
       [label |-> <<"Transfer image tar to target">>,
        command |-> <<"rsync -az -e \"ssh\" ", containers[k], "-image.tar <targetHost>:~/">>,
        runOn |-> "local"],
       [label |-> <<"Load image on target">>,
        command |-> <<"docker load -i ~/", containers[k], "-image.tar">>,
        runOn |-> "target"],
       [label |-> <<"Recreate container ", containers[k], " on target">>,
        command |-> <<"docker run --name ", containers[k], " ", containers[k], ":migrated">>,
        runOn |-> "target"] >>])

VolumeWarning == <<"Volume sync uses a helper container (alpine) and does not require sudo.">>
ContainerWarning ==
  <<"Containers are recreated with a best-effort config. Review runtime settings after migration.">>
EmptyPlanWarning == <<"Select at least one container, volume, or network to migrate.">>

\* variant: the container block comes first
PlanStepArgsContainersFirst(networkSteps, volumeSteps, containerSteps) ==
  containerSteps \o networkSteps \o volumeSteps

\* the three blocks push their steps in this order
PlanStepArgs(networkSteps, volumeSteps, containerSteps) ==
  networkSteps \o volumeSteps \o containerSteps

\* variant: the test is inverted
EmptyPlanWarningsInverted(steps) == IF Len(steps) # 0 THEN <<EmptyPlanWarning>> ELSE <<>>

\* if (!steps.length) warnings.push(...)
EmptyPlanWarnings(steps) == IF Len(steps) = 0 THEN <<EmptyPlanWarning>> ELSE <<>>

createMigrationPlan(src, tgt, sel, opts, now, tick, seed) ==
  LET wantNetworks == opts.includeNetworks /\ Len(sel.networks) # 0
      wantVolumes == opts.includeVolumes /\ Len(sel.volumes) # 0
      wantContainers == opts.includeContainers /\ Len(sel.containers) # 0
      stepArgs ==
        PlanStepArgs(IF wantNetworks THEN NetworkStepArgs(sel.networks) ELSE <<>>,
                     IF wantVolumes THEN VolumeStepArgs(sel.volumes) ELSE <<>>,
                     IF wantContainers THEN ContainerStepArgs(sel.containers) ELSE <<>>)
      steps ==
        [k \in 1..Len(stepArgs) |->
           createStep(stepArgs[k].label, stepArgs[k].command, stepArgs[k].runOn,
                      DateNow(now, tick, k - 1), MathRandomSlice(seed, k - 1))]
      warnings ==
        (IF wantNetworks THEN NetworkWarnings(sel.networks) ELSE <<>>)
        \o (IF wantVolumes THEN <<VolumeWarning>> ELSE <<>>)
        \o (IF wantContainers THEN <<ContainerWarning>> ELSE <<>>)
        \o EmptyPlanWarnings(steps)
  IN  [built |-> TRUE, steps |-> steps, warnings |-> warnings]

\* the selections handed to the plan builder: as BoundedSelections, with a
\* second volume name
PlanVolumeNames == VolumeNames \cup {"cache"}

PlanSelections ==
  {s \in [containers : SeqsUpTo(ContainerNames, MaxSelected),
          volumes : SeqsUpTo(PlanVolumeNames, MaxSelected),
          networks : SeqsUpTo(NetworkNames, MaxSelected)] :
     Len(s.containers) + Len(s.volumes) + Len(s.networks) <= MaxSelected}

\* the 'migration:plan' handler: one call of createMigrationPlan
PlanInit ==
  /\ source \in Hosts
  /\ target \in Hosts
  /\ selection \in PlanSelections
  /\ options \in MigrationOptions
  /\ clock \in 0..MaxClock
  /\ planSeed \in 0..(RandomSlices - 1)
  /\ planTick \in 0..MaxTick
  /\ plan = NoPlan
  /\ pc = "start"
  /\ index = 1
  /\ logs = <<>>
  /\ current = 0
  /\ totalSteps = 0
  /\ inspectItems = <<>>
  /\ tar = NoTar
  /\ outcome = Pending
  /\ progress = <<>>
  /\ commands = <<>>
  /\ procs = NoProcs
  /\ sourceExit = <<>>
  /\ targetExit = <<>>
  /\ pipePromise = PendingPromise
  /\ argsInspect = EmptyInspect
  /\ argsBuilt = <<>>
  /\ rsyncError = <<>>
  /\ swallowed = {}
  /\ targetNetworks = DEFAULT_NETWORKS
  /\ firstRun = NoRun
  /\ otherTar = NoOtherTar
  /\ ui = IdleUi

\* variant: the plan builder inspects the selected containers on the source
CreatePlanInspects ==
  /\ ~plan.built
  /\ plan' = createMigrationPlan(source, target, selection, options, clock, planTick, planSeed)
  /\ Issue(runDockerCommand("inspect", selection.containers, source,
                            <<"inspect">> \o selection.containers))
  /\ UNCHANGED <<inputVars, pc, index, logs, current, totalSteps, inspectItems, tar, outcome,
                 progress, clock, pipeVars, planSeed, planTick, argsVars, firstRun, otherTar, ui,
                 rsyncError, swallowed, targetNetworks>>

CreatePlan ==
  /\ ~plan.built
  /\ plan' = createMigrationPlan(source, target, selection, options, clock, planTick, planSeed)
  /\ UNCHANGED <<inputVars, pc, index, logs, current, totalSteps, inspectItems, tar, outcome,
                 progress, commands, clock, pipeVars, planSeed, planTick, argsVars, firstRun, otherTar, ui,
                 rsyncError, swallowed, targetNetworks>>

PlanNext == CreatePlan

PlanSpec == PlanInit /\ [][PlanNext]_vars

\* ==================================================== buildContainerRunArgs
\* bounds of the inspected configuration the function is given: the number of
\* bind mounts, the restart policy's retry count and the number of networks the
\* container is attached to
MaxBinds == 2
MaxRetryCount == 2
MaxNetworksOf == 3

\* bind strings as Docker reports them, in parts: a Windows drive path, a Linux
\* path, a relative Windows path, and a Linux path mounted at a container path
\* that has a backslash in its name
BindStrings ==
  { <<"C", ":", "\\", "data", ":", "/data">>,
    <<"/", "srv", ":", "/srv">>,
    <<"share", "\\", "dir", ":", "/mnt">>,
    <<"/", "opt", ":", "/opt/a", "\\", "b">> }

RestartPolicyNames == {"", "no", "always", "unless-stopped", "on-failure"}

RestartPolicies ==
  {[Name |-> n, MaximumRetryCount |-> c] : n \in RestartPolicyNames, c \in 0..MaxRetryCount}

ArgsName == <<"w", "e", "b">>
ArgsImageTag == <<"docker-copy/", sanitizeImageTag(ArgsName), ":migrated">>

\* the keys of NetworkSettings.Networks, in the order of the object: no name twice
AttachedNetworkNames == {"bridge", "host", "appnet", "backend"}

NetworkKeyLists ==
  {n \in SeqsUpTo(AttachedNetworkNames, MaxNetworksOf) :
     \A i, j \in 1..Len(n) : i # j => n[i] # n[j]}

ArgsInspects ==
  {[EmptyInspect EXCEPT !.Name = <<"/">> \o ArgsName, !.Env = <<"MODE=prod">>, !.Cmd = <<"serve">>,
                        !.Binds = b, !.RestartPolicy = r, !.Running = run,
                        !.Networks = n] :
     b \in SeqsUpTo(BindStrings, MaxBinds), r \in RestartPolicies, run \in BOOLEAN,
     n \in NetworkKeyLists}

engineVars ==
  <<inputVars, pc, index, logs, current, totalSteps, inspectItems, tar, outcome, progress,
    commands, clock, pipeVars, rsyncError, swallowed, targetNetworks>>

ArgsInit ==
  /\ argsInspect \in ArgsInspects
  /\ argsBuilt = <<>>
  /\ source = LocalHost
  /\ target = LocalHost
  /\ selection = [containers |-> <<ArgsName>>, volumes |-> <<>>, networks |-> <<>>]
  /\ options = [includeContainers |-> TRUE, includeVolumes |-> FALSE, includeNetworks |-> FALSE,
               dryRun |-> FALSE]
  /\ pc = "start"
  /\ index = 1
  /\ logs = <<>>
  /\ current = 0
  /\ totalSteps = 0
  /\ inspectItems = <<>>
  /\ tar = NoTar
  /\ outcome = Pending
  /\ progress = <<>>
  /\ commands = <<>>
  /\ clock = 0
  /\ procs = NoProcs
  /\ sourceExit = <<>>
  /\ targetExit = <<>>
  /\ pipePromise = PendingPromise
  /\ plan = NoPlan
  /\ planSeed = 0
  /\ planTick = 0
  /\ rsyncError = <<>>
  /\ swallowed = {}
  /\ targetNetworks = DEFAULT_NETWORKS
  /\ firstRun = NoRun
  /\ otherTar = NoOtherTar
  /\ ui = IdleUi

\* one call of buildContainerRunArgs(container, inspect, imageTag)
BuildArgs ==
  /\ argsBuilt = <<>>
  /\ argsBuilt' = <<buildContainerRunArgs(ArgsName, argsInspect, ArgsImageTag)>>
  /\ UNCHANGED <<engineVars, planVars, argsInspect, firstRun, otherTar, ui>>

ArgsNext == BuildArgs

ArgsSpec == ArgsInit /\ [][ArgsNext]_vars

\* ================================================================ properties
ProcessClosed(status) == status \in {"closed", "closed after error"}

\* C1: the volume synchronisation resolves only when both child processes closed
\* with exit code 0; once both have closed with an exit code and one of the codes
\* is not 0, the operation has failed, whichever close event came first, and when
\* no spawn error came before, the failure carries both exit codes, also when
\* the other code is 0.
C1_SyncFailsUnlessBothExitZero ==
  /\ pipePromise.state = "resolved" =>
       /\ sourceExit = <<0>> /\ targetExit = <<0>>
       /\ procs.source = "closed" /\ procs.target = "closed"
  /\ ( /\ ProcessClosed(procs.source) /\ ProcessClosed(procs.target)
       /\ sourceExit \in ExitCodes /\ targetExit \in ExitCodes
       /\ sourceExit # <<0>> \/ targetExit # <<0>> ) =>
       /\ pipePromise.state = "rejected"
       /\ (procs.source = "closed" /\ procs.target = "closed") =>
            pipePromise.reason = HelperSyncFailed(sourceExit, targetExit)

\* the packaging process exited with 0, the unpacking process with 1, and the
\* synchronisation failed with both codes
C1_Witness ==
  /\ procs.source = "closed" /\ procs.target = "closed"
  /\ sourceExit = <<0>> /\ targetExit = <<1>>
  /\ pipePromise = [state |-> "rejected", reason |-> HelperSyncFailed(<<0>>, <<1>>)]

SourceIsRemote == source.host # "" /\ source.user # ""

WorkKinds ==
  {"volume create", "volume pack", "volume unpack", "inspect", "commit", "save", "transfer",
   "load", "create", "unlink", "remote rm", "volume inspect"}

C3_ProgressMonotoneAndBounded ==
  \A k \in 1..Len(progress) :
    /\ progress[k].current <= progress[k].total
    /\ progress[k].total >= 1
    /\ k > 1 => progress[k].current >= progress[k - 1].current

\* a run with a skipped default network and a skipped container has sent several
\* events
C3_Witness ==
  /\ pc = "done" /\ outcome.kind = "returned" /\ outcome.ok
  /\ Len(progress) >= 2
  /\ options.includeNetworks /\ \E k \in 1..Len(selection.networks) : selection.networks[k] = "bridge"
  /\ \E k \in 1..Len(logs) : logs[k][1] = "Skipping "

ContainerKinds == {"commit", "save", "transfer", "load", "create", "unlink", "remote rm"}

\* the k-th selected container has been passed by the loop without configuration
Skipped(k) ==
  /\ inspectItems # <<>>
  /\ k < index
  /\ ~HasInspect(inspectItems, selection.containers[k])

SkipEntries(name) ==
  {k \in 1..Len(logs) : Len(logs[k]) = 3 /\ logs[k][1] = "Skipping " /\ logs[k][2] = name}

\* C4: a selected container without inspected configuration gets one skip entry in
\* the logs and no commit, save, transfer, load or create command; the loop goes on:
\* a run that returned has passed every container and has issued the create command
\* of every container that has a configuration, and its result has ok:true.
C4_SkippedContainerIsLoggedAndPassed ==
  \A k \in 1..Len(selection.containers) :
    Skipped(k) =>
      /\ Cardinality(SkipEntries(selection.containers[k]))
           = Cardinality({j \in 1..(index - 1) : selection.containers[j] = selection.containers[k]})
      /\ \A c \in 1..Len(commands) :
           commands[c].kind \in ContainerKinds => commands[c].subject # selection.containers[k]
      /\ outcome.kind = "returned" =>
           /\ outcome.ok
           /\ index = Len(selection.containers) + 1
           /\ \A j \in 1..Len(selection.containers) :
                HasInspect(inspectItems, selection.containers[j]) =>
                  \E c \in 1..Len(commands) :
                    commands[c].kind = "create" /\ commands[c].subject = selection.containers[j]

\* the first container was skipped, the second one migrated, and the result is ok
C4_Witness ==
  /\ Len(selection.containers) = 2
  /\ Skipped(1)
  /\ outcome.kind = "returned" /\ outcome.ok
  /\ \E c \in 1..Len(commands) :
       commands[c].kind = "create" /\ commands[c].subject = selection.containers[2]

CommandErrors == {"Command failed", "Helper sync failed", "spawn error"}

\* C5: when the synchronisation of a volume has failed, the settled run has
\* returned a result that carries the logs accumulated so far.
C5_SyncFailureReturnsResultWithLogs ==
  (pc = "done" /\ pipePromise.state = "rejected") =>
    /\ outcome.kind = "returned"
    /\ outcome.logs = logs

\* C6: with a local source, a settled run has returned ok:true unless an external
\* command or process failed.
C6_LocalSourceReturnsOkUnlessCommandFails ==
  (~SourceIsRemote /\ pc = "done") =>
    IF outcome.kind = "returned" THEN outcome.ok
    ELSE outcome.message.error \in CommandErrors

\* ---- properties of createMigrationPlan (PlanSpec)
IsNetworkStep(step) == step.label[1] = "Create network "
IsVolumeStep(step) == step.label[1] \in {"Ensure volume ", "Sync volume "}
IsContainerStep(step) == ~IsNetworkStep(step) /\ ~IsVolumeStep(step)

IsSkipWarning(w, name) ==
  Len(w) = 3 /\ w[1] = "Skipping default network \"" /\ w[2] = name

BuiltInNetworks == {"bridge", "host", "none"}

\* C7: when networks are included and every selected network is bridge, host or
\* none, the plan has no network step and one skip warning per selected entry.
C7_DefaultNetworksGiveWarningsOnly ==
  ( /\ plan.built
    /\ options.includeNetworks
    /\ \A k \in 1..Len(selection.networks) : selection.networks[k] \in BuiltInNetworks ) =>
    /\ \A k \in 1..Len(plan.steps) : ~IsNetworkStep(plan.steps[k])
    /\ \A name \in BuiltInNetworks :
         Cardinality({k \in 1..Len(plan.warnings) : IsSkipWarning(plan.warnings[k], name)})
           = Cardinality({k \in 1..Len(selection.networks) : selection.networks[k] = name})
    /\ Cardinality({k \in 1..Len(plan.warnings) : plan.warnings[k][1] = "Skipping default network \""})
         = Len(selection.networks)

\* bridge selected twice: two warnings, no network step
C7_Witness ==
  /\ plan.built /\ options.includeNetworks
  /\ selection.networks = <<"bridge", "bridge">>
  /\ Cardinality({k \in 1..Len(plan.warnings) : IsSkipWarning(plan.warnings[k], "bridge")}) = 2

\* C8: an empty selection gives a plan with no step and exactly the one warning
\* that asks to select a resource, whatever the options; and every plan without
\* steps carries that warning.
C8_EmptyPlanHasTheSelectWarning ==
  plan.built =>
    /\ ( selection.containers = <<>> /\ selection.volumes = <<>> /\ selection.networks = <<>> ) =>
         /\ plan.steps = <<>>
         /\ plan.warnings = <<EmptyPlanWarning>>
    /\ Len(plan.steps) = 0 =>
         \E k \in 1..Len(plan.warnings) : plan.warnings[k] = EmptyPlanWarning
    /\ Len(plan.steps) # 0 =>
         \A k \in 1..Len(plan.warnings) : plan.warnings[k] # EmptyPlanWarning

\* nothing selected, every category included
C8_Witness ==
  /\ plan.built
  /\ selection.containers = <<>> /\ selection.volumes = <<>> /\ selection.networks = <<>>
  /\ options.includeContainers /\ options.includeVolumes /\ options.includeNetworks
  /\ plan.warnings = <<EmptyPlanWarning>>

\* C9: in a plan, network steps come before volume steps and volume steps before
\* container steps.
C9_StepsOrderedByCategory ==
  \A i, j \in 1..Len(plan.steps) :
    i < j =>
      /\ IsNetworkStep(plan.steps[j]) => IsNetworkStep(plan.steps[i])
      /\ IsVolumeStep(plan.steps[j]) => ~IsContainerStep(plan.steps[i])

\* a plan with steps of the three categories
C9_Witness ==
  /\ plan.built
  /\ \E k \in 1..Len(plan.steps) : IsNetworkStep(plan.steps[k])
  /\ \E k \in 1..Len(plan.steps) : IsVolumeStep(plan.steps[k])
  /\ \E k \in 1..Len(plan.steps) : IsContainerStep(plan.steps[k])

\* C10: no two steps of a plan have the same id.
C10_StepIdsUnique ==
  \A i, j \in 1..Len(plan.steps) : i # j => plan.steps[i].id # plan.steps[j].id

\* C11: createMigrationPlan has no side effect: the step that builds the plan
\* issues no external command, spawns no process, sends no progress event and
\* leaves the logs, the result and the target's networks as they are.
C11_PlanBuilderHasNoSideEffects ==
  [][ plan' # plan =>
        /\ commands' = commands
        /\ progress' = progress
        /\ procs' = procs
        /\ logs' = logs
        /\ outcome' = outcome
        /\ targetNetworks' = targetNetworks ]_vars

\* a plan with the steps of a container has been built and nothing was run
C11_Witness ==
  /\ plan.built
  /\ Len(plan.steps) >= 5
  /\ commands = <<>>
  /\ progress = <<>>

\* ---- properties of buildContainerRunArgs (ArgsSpec)
\* the host path of a bind string: what stands before the colon that separates
\* it from the container path (the colon of a drive letter is part of the path)
HostPath(bind) ==
  LET from == IF Len(bind) >= 3 /\ bind[2] = ":" /\ bind[3] = "\\" THEN 3 ELSE 1
      colons == {k \in from..Len(bind) : bind[k] = ":"}
      end == IF colons = {} THEN Len(bind)
             ELSE (CHOOSE k \in colons : \A j \in colons : k <= j) - 1
  IN  SubSeq(bind, 1, end)

HostPathIsWindows(bind) == \E k \in 1..Len(HostPath(bind)) : HostPath(bind)[k] = "\\"

\* the values of the -v arguments, in order
VolumeArgValues(args) ==
  LET at == SelectSeq([k \in 1..Len(args) |-> k], LAMBDA k : args[k] = <<"-v">>)
  IN  [j \in 1..Len(at) |-> args[at[j] + 1]]

\* C12: the binds whose host path is Windows-style (it has a backslash) are the
\* skipped list, in order, and are not among the arguments; every other bind is
\* one -v argument, verbatim and in the original order.
C12_BindsSkippedIffHostPathIsWindows ==
  argsBuilt # <<>> =>
    /\ argsBuilt[1].skippedBinds = SelectSeq(argsInspect.Binds, HostPathIsWindows)
    /\ VolumeArgValues(argsBuilt[1].args)
         = SelectSeq(argsInspect.Binds, LAMBDA b : ~HostPathIsWindows(b))

RestartFlags(args) == SelectSeq(args, LAMBDA a : a[1] = "--restart=")

\* C13: the arguments have at most one restart flag: none when the policy name is
\* absent or "no", --restart=on-failure:N for on-failure with a positive retry
\* count N, and --restart=<name> otherwise.
C13_AtMostOneRestartFlag ==
  argsBuilt # <<>> =>
    LET policy == argsInspect.RestartPolicy
        flags == RestartFlags(argsBuilt[1].args)
    IN  /\ Len(flags) <= 1
        /\ flags =
             IF policy.Name = "" \/ policy.Name = "no" THEN <<>>
             ELSE IF policy.Name = "on-failure" /\ policy.MaximumRetryCount > 0
                  THEN << <<"--restart=", "on-failure:", policy.MaximumRetryCount>> >>
                  ELSE << <<"--restart=", policy.Name>> >>

\* on-failure with two retries gave the one flag --restart=on-failure:2
C13_Witness ==
  /\ argsBuilt # <<>>
  /\ argsInspect.RestartPolicy = [Name |-> "on-failure", MaximumRetryCount |-> 2]
  /\ RestartFlags(argsBuilt[1].args) = << <<"--restart=", "on-failure:", 2>> >>

SpawnFailed(status) == status \in {"failed", "closed after error"}

\* C14: as soon as the packaging or the unpacking process has raised an error
\* event, the operation is rejected with a spawn error, whether or not the other
\* process has closed.
C14_SpawnErrorRejectsAtOnce ==
  (SpawnFailed(procs.source) \/ SpawnFailed(procs.target)) =>
    /\ pipePromise.state = "rejected"
    /\ pipePromise.reason.error = "spawn error"
    /\ (~SpawnFailed(procs.target)) => pipePromise.reason = SpawnError("source")
    /\ (~SpawnFailed(procs.source)) => pipePromise.reason = SpawnError("target")

\* the packaging process failed to spawn; the operation is rejected and
\* runMigration has gone on while the unpacking process is still running
C14_Witness ==
  /\ procs.source = "failed"
  /\ procs.target = "running"
  /\ pipePromise = [state |-> "rejected", reason |-> SpawnError("source")]
  /\ pc = "done"
  /\ outcome.kind = "raised"

CountKind(kind, command) ==
  Cardinality({k \in 1..Len(commands) : commands[k].kind = kind /\ commands[k].command = command})

\* C15: scp is started only after rsync failed because the program was not found,
\* and once per transfer; after any other failure of rsync (an exit status, a
\* signal) the error is raised and no scp is started.
C15_ScpOnlyWhenRsyncNotFound ==
  /\ pc = "awaitScp" => rsyncError = <<"ENOENT">>
  /\ rsyncError \in {<<"exit">>, <<"signal">>} =>
       /\ pc = "done"
       /\ outcome.kind = "raised"
       /\ outcome.message = CommandFailed("rsync")
  /\ CountKind("transfer", "scp") <= CountKind("transfer", "rsync")

\* C16: creating a selected network that the target has already counts as
\* success: no run ends with the "already exists" error of the create command.
C16_ExistingNetworkIsSuccess ==
  (pc = "done" /\ outcome.kind = "raised") =>
    \A name \in NetworkNames : outcome.message # NetworkExists(name)

TargetIsRemote == target.host # "" /\ target.user # ""

CleanupEndGoesOn ==
  pc \in {"awaitUnlink", "awaitRemoteRm"} =>
    /\ outcome' = outcome
    /\ logs' = logs
    /\ progress' = progress
    /\ pc' = IF pc = "awaitUnlink" /\ TargetIsRemote THEN "awaitRemoteRm" ELSE "containerLoop"
    /\ pc' = "containerLoop" => index' = index + 1

\* C17: when a cleanup operation (local unlink, remote rm) ends, with or without an
\* error, the result, the logs and the progress stay as they are and the engine
\* goes on: to the remote rm or to the next container; and a run that returned
\* after a failed cleanup has the result of a run whose cleanup succeeded.
C17_CleanupFailureIsSwallowed ==
  /\ [][CleanupEndGoesOn]_vars
  /\ [](outcome.kind = "returned" /\ swallowed # {} =>
          /\ outcome.ok
          /\ outcome.message = "Migration finished with container steps pending manual execution."
          /\ outcome.logs = logs)
  /\ [](outcome.kind = "raised" /\ outcome.message.error = "Command failed" =>
          outcome.message.detail \notin {"unlink", "remote rm"})

\* the unlink and the remote rm of the last container both failed, and the run
\* returned ok:true
C17_Witness ==
  /\ swallowed = {"unlink", "remote rm"}
  /\ pc = "done"
  /\ outcome.kind = "returned"
  /\ outcome.ok

\* the command that begins a unit of work: the volume unit begins with the create
\* of the volume, the transfer unit with the copy or with rsync
StartsUnit(cmd) ==
  \/ cmd.kind \in {"network create", "volume create", "commit", "save", "load", "create"}
  \/ cmd.kind = "transfer" /\ cmd.command \in {"fs.copyFile", "rsync"}

UnitsStarted == Cardinality({k \in 1..Len(commands) : StartsUnit(commands[k])})
ContainersSkipped ==
  Cardinality({k \in 1..Len(logs) : Len(logs[k]) = 3 /\ logs[k][1] = "Skipping "})

UnitAwaits ==
  {"awaitNetwork", "awaitVolumeCreate", "awaitSync", "awaitCommit", "awaitSave", "awaitCopy",
   "awaitRsync", "awaitScp", "awaitLoad", "awaitCreate"}

ProgressAnnouncesUnit ==
  LET issued == Len(commands') > Len(commands)
      cmd == commands'[Len(commands) + 1]
      sent == progress'[Len(progress')]
  IN  /\ (issued /\ StartsUnit(cmd)) =>
           /\ progress' = Append(progress, sent)
           /\ sent.message[2] = cmd.subject
      /\ progress' # progress =>
           /\ progress' = Append(progress, sent)
           /\ sent.current = Len(progress')
           /\ IF issued
              THEN StartsUnit(cmd) /\ sent.message[2] = cmd.subject
              ELSE logs' = Append(logs, <<"Skipping ", sent.message[2],
                                          ": unable to read container configuration.">>)

PlannedUnits ==
  (IF options.includeNetworks
   THEN Cardinality({k \in 1..Len(selection.networks) : selection.networks[k] \notin BuiltInNetworks})
   ELSE 0)
  + (IF options.includeVolumes THEN Len(selection.volumes) ELSE 0)
  + (IF options.includeContainers THEN 5 * Len(selection.containers) ELSE 0)

\* C19: every progress event of a run carries the same total, the larger of 1 and
\* N + V + 5 * C.
C19_TotalIsPlannedUnits ==
  \A k \in 1..Len(progress) :
    progress[k].total = (IF PlannedUnits >= 1 THEN PlannedUnits ELSE 1)

\* a default and another network and a container: six events with total 6
C19_Witness ==
  /\ options.includeNetworks /\ options.includeContainers /\ ~options.includeVolumes
  /\ selection.networks = <<"bridge", "appnet">>
  /\ Len(selection.containers) = 1
  /\ Len(progress) = 6
  /\ progress[1].total = 6 /\ progress[6].total = 6

\* how a step of each of the five kinds begins: its label, its command, its host
ContainerStepKinds ==
  << [label |-> "Commit container ", command |-> "docker commit ", runOn |-> "source"],
     [label |-> "Save image ", command |-> "docker save ", runOn |-> "source"],
     [label |-> "Transfer image tar to target", command |-> "rsync -az -e \"ssh\" ", runOn |-> "local"],
     [label |-> "Load image on target", command |-> "docker load -i ~/", runOn |-> "target"],
     [label |-> "Recreate container ", command |-> "docker run --name ", runOn |-> "target"] >>

IsStepOfKind(step, j, container) ==
  /\ step.label[1] = ContainerStepKinds[j].label
  /\ step.command[1] = ContainerStepKinds[j].command
  /\ step.command[2] = container
  /\ step.runOn = ContainerStepKinds[j].runOn

BestEffortWarnings ==
  Cardinality({k \in 1..Len(plan.warnings) :
    plan.warnings[k] = <<"Containers are recreated with a best-effort config. Review runtime settings after migration.">>})

\* C20: with containers included, the plan ends with five consecutive steps per
\* selected container (commit, save, transfer, load, recreate), the containers in
\* selection order, and these are its only container steps; the plan has exactly
\* one best-effort warning when a container is planned, and none otherwise.
C20_FiveStepsPerContainer ==
  plan.built =>
    LET planned == IF options.includeContainers THEN selection.containers ELSE <<>>
        first == Len(plan.steps) - 5 * Len(planned)
    IN  /\ first >= 0
        /\ \A i \in 1..Len(planned) : \A j \in 1..5 :
             IsStepOfKind(plan.steps[first + 5 * (i - 1) + j], j, planned[i])
        /\ \A k \in 1..first : ~IsContainerStep(plan.steps[k])
        /\ BestEffortWarnings = (IF Len(planned) > 0 THEN 1 ELSE 0)

\* two containers, after the steps of a volume: ten container steps, one warning
C20_Witness ==
  /\ plan.built
  /\ options.includeContainers /\ options.includeVolumes
  /\ Len(selection.containers) = 2 /\ Len(selection.volumes) = 1
  /\ Len(plan.steps) = 12
  /\ IsStepOfKind(plan.steps[8], 1, selection.containers[2])
  /\ BestEffortWarnings = 1

\* ---------------------------------------------------------------- C21
IsEnsureVolumeStep(step, volume) ==
  /\ step.label = <<"Ensure volume ", volume, " exists on target">>
  /\ step.command = <<"docker volume create ", volume>>
  /\ step.runOn = "target"

IsSyncVolumeStep(step, volume) ==
  /\ step.label = <<"Sync volume ", volume, " data to target (helper container)">>
  /\ step.command[1] = "docker run --rm -v " /\ step.command[2] = volume
  /\ step.command[4] = volume
  /\ step.runOn = "local"

\* C21: with volumes included, the plan holds for each selected volume exactly
\* two steps, "ensure the volume exists on the target" immediately followed by
\* "sync the volume" for the same volume, the volumes in selection order; the
\* plan has no other volume step.
C21_VolumeStepsPairedInSelectionOrder ==
  plan.built =>
    LET planned == IF options.includeVolumes THEN selection.volumes ELSE <<>>
        first == Len(SelectSeq(plan.steps, IsNetworkStep))
    IN  /\ Len(SelectSeq(plan.steps, IsVolumeStep)) = 2 * Len(planned)
        /\ first + 2 * Len(planned) <= Len(plan.steps)
        /\ \A i \in 1..Len(planned) :
             /\ IsEnsureVolumeStep(plan.steps[first + 2 * i - 1], planned[i])
             /\ IsSyncVolumeStep(plan.steps[first + 2 * i], planned[i])

\* a plan for two different volumes behind a network step
C21_Witness ==
  /\ plan.built
  /\ options.includeVolumes /\ options.includeNetworks
  /\ selection.volumes = <<"cache", "data">>
  /\ selection.networks = <<"appnet">>
  /\ Len(plan.steps) = 5
  /\ IsEnsureVolumeStep(plan.steps[4], "data")
  /\ IsSyncVolumeStep(plan.steps[3], "cache")

\* ---------------------------------------------------------------- C22
\* what the environment told an execution, read off the commands it issued: the
\* Date.now() in each tar name, and where rsync was followed by scp
TarStamps(cmds) ==
  LET saves == SelectSeq(cmds, LAMBDA c : c.kind = "save")
  IN  [k \in 1..Len(saves) |-> saves[k].args[4][4]]

TransferPrograms(cmds) ==
  LET transfers == SelectSeq(cmds, LAMBDA c : c.kind = "transfer")
  IN  [k \in 1..Len(transfers) |-> transfers[k].command]

SameEnvironment ==
  /\ inspectItems = firstRun.inspectItems
  /\ TarStamps(commands) = TarStamps(firstRun.commands)
  /\ TransferPrograms(commands) = TransferPrograms(firstRun.commands)

TwinAgrees ==
  (/\ firstRun.ran
   /\ pc = "done"
   /\ outcome.kind = "returned"
   /\ SameEnvironment)
  => /\ commands = firstRun.commands
     /\ progress = firstRun.progress
     /\ outcome = firstRun.outcome

\* the execution the renderer has started (no other has run before it)
StartedByRenderer == pc # "ui" /\ ~firstRun.ran

\* C22: runMigration never reads options.dryRun: a second execution whose
\* parameters differ from the first only in options.dryRun and which is told
\* the same by its environment issues the same commands, sends the same progress
\* events and returns the same result; and the renderer starts runMigration
\* only while options.dryRun is off.
C22_DryRunReadOnlyByTheRenderer ==
  /\ TwinAgrees
  /\ StartedByRenderer => ~options.dryRun

\* a second execution, with dryRun on, that has migrated a container by scp, as
\* the first did
C22_Witness ==
  /\ firstRun.ran /\ pc = "done" /\ outcome.kind = "returned" /\ outcome.ok
  /\ options.dryRun
  /\ SameEnvironment
  /\ \E k \in 1..Len(commands) : commands[k].kind = "create"
  /\ \E k \in 1..Len(commands) : commands[k].command = "scp"
  /\ Len(progress) = 5

\* ---------------------------------------------------------------- C23
\* C23: once every spawned process has terminated runMigration settles; in
\* particular the promise of runPipedCommands is settled as soon as both child
\* processes have closed, whatever close codes (a number, or null after a
\* signal) they report: no state has both processes closed and the promise,
\* and with it runMigration, still pending.
C23_SyncSettlesOnceBothProcessesClosed ==
  ProcessClosed(procs.source) /\ ProcessClosed(procs.target)
    => pipePromise.state # "pending"

\* ---------------------------------------------------------------- C24
PhaseOfKind(kind) ==
  CASE kind = "network create" -> 1
    [] kind \in {"volume create", "volume pack", "volume unpack"} -> 2
    [] kind \in {"inspect", "commit", "save", "transfer", "load", "create", "unlink",
                 "remote rm"} -> 3
    [] OTHER -> 4

\* the states in which runMigration awaits a command it has issued
CommandAwaits ==
  {"awaitNetwork", "awaitVolumeCreate", "awaitInspect", "awaitCommit", "awaitSave",
   "awaitCopy", "awaitRsync", "awaitScp", "awaitLoad", "awaitCreate", "awaitUnlink",
   "awaitRemoteRm", "awaitVolumeInspect"}

ProcessesRunning ==
  (IF procs.source = "running" THEN 1 ELSE 0) + (IF procs.target = "running" THEN 1 ELSE 0)

PhasesInSequence ==
  \* the commands are issued phase by phase
  /\ \A k \in 2..Len(commands) :
       PhaseOfKind(commands[k - 1].kind) <= PhaseOfKind(commands[k].kind)
  \* a network command that another command has followed has created its network
  /\ \A k \in 1..Len(commands) :
       commands[k].kind = "network create" /\ k < Len(commands)
         => commands[k].subject \in targetNetworks
  \* while a command is awaited no process of a volume synchronisation runs
  /\ pc \in CommandAwaits => ProcessesRunning = 0
  /\ ProcessesRunning > 0 => pc \in {"awaitSync", "done"}
  /\ ProcessesRunning = 2 => pc = "awaitSync"

\* a step that issues commands issues one, or the two of one volume
\* synchronisation, and finds no process running and the latest synchronisation
\* completed
IssuesInTurn ==
  Len(commands') > Len(commands) =>
    /\ ProcessesRunning = 0
    /\ procs = NoProcs \/ pipePromise.state = "resolved"
    /\ \/ Len(commands') = Len(commands) + 1
       \/ /\ Len(commands') = Len(commands) + 2
          /\ commands'[Len(commands) + 1].kind = "volume pack"
          /\ commands'[Len(commands) + 2].kind = "volume unpack"
          /\ commands'[Len(commands) + 1].subject = commands'[Len(commands) + 2].subject

\* C24: the phases run strictly in sequence: no volume command is issued before
\* the last network command has completed, no container command before the
\* last volume synchronisation has completed, and apart from the two processes
\* of one volume synchronisation at most one external command is in flight.
C24_PhasesRunInSequence == []PhasesInSequence /\ [][IssuesInTurn]_vars

\* a run that has created a network, synchronised a volume and reached the
\* transfer of a container
C24_Witness ==
  /\ pc = "awaitLoad"
  /\ \E k \in 1..Len(commands) : commands[k].kind = "network create"
  /\ \E k \in 1..Len(commands) : commands[k].kind = "volume unpack"
  /\ procs = [source |-> "closed", target |-> "closed"]

\* ---------------------------------------------------------------- C25
\* the commands of the container loop, in the order issued
ContainerCommands == SelectSeq(commands, LAMBDA c : c.kind \in ContainerKinds)

\* command b may be the command issued next after command a
FollowsInContainer(a, b) ==
  \/ /\ b.kind = "commit"
     /\ a.kind \in {"unlink", "remote rm"}
  \/ /\ b.subject = a.subject
     /\ \/ a.kind = "commit" /\ b.kind = "save"
        \/ a.kind = "save" /\ b.kind = "transfer" /\ b.command \in {"fs.copyFile", "rsync"}
        \/ a.kind = "transfer" /\ a.command = "rsync" /\ b.kind = "transfer" /\ b.command = "scp"
        \/ a.kind = "transfer" /\ b.kind = "load"
        \/ a.kind = "load" /\ b.kind = "create"
        \/ a.kind = "create" /\ b.kind = "unlink"
        \/ a.kind = "unlink" /\ b.kind = "remote rm"

\* the containers that have a configuration, in selection order
ReadableContainers ==
  SelectSeq(selection.containers, LAMBDA c : HasInspect(inspectItems, c))

CommittedContainers ==
  LET commits == SelectSeq(commands, LAMBDA c : c.kind = "commit")
  IN  [k \in 1..Len(commits) |-> commits[k].subject]

\* the log entries of one container follow its "Committing" entry
LogHeadsAfterCommit == <<"Saving ", "Transferring image tar to target", "Loading image ",
                         "Creating container ">>

\* the program whose failure an error of runMigration reports
FailedProgram(cmd) == IF cmd.kind = "transfer" THEN cmd.command ELSE cmd.kind

ContainerStepsInOrder ==
  LET issued == ContainerCommands
      committed == CommittedContainers
      readable == ReadableContainers
  IN  /\ \A k \in 2..Len(issued) : FollowsInContainer(issued[k - 1], issued[k])
      /\ Len(issued) > 0 => issued[1].kind = "commit"
      /\ Len(committed) <= Len(readable)
      /\ committed = SubSeq(readable, 1, Len(committed))
      /\ (/\ outcome.kind = "raised"
          /\ outcome.message.error = "Command failed"
          /\ outcome.message.detail \in {"commit", "save", "fs.copyFile", "rsync", "scp",
                                          "load", "create"})
         => FailedProgram(commands[Len(commands)]) = outcome.message.detail
      /\ \A k \in 1..Len(logs) :
           logs[k][1] = "Committing " =>
             \A j \in 1..4 :
               k + j <= Len(logs) =>
                 /\ logs[k + j][1] = LogHeadsAfterCommit[j]
                 /\ j = 4 => logs[k + j][2] = logs[k][2]

\* C25: for each container the commands are issued in the order commit, save,
\* transfer, load, create, each only after the previous one has succeeded (a
\* failed command is the last command of the run), and every command and log
\* entry of one container comes before those of the next container, the
\* containers in selection order.
C25_ContainerStepsInOrder == []ContainerStepsInOrder

\* the second of two containers is being created after the first used scp
C25_Witness ==
  /\ pc = "awaitCreate"
  /\ index = 2
  /\ selection.containers[1] # selection.containers[2]
  /\ \E k \in 1..Len(commands) : commands[k].command = "scp"
  /\ Len(ContainerCommands) = 13

\* ---------------------------------------------------------------- C26
\* the networks the network phase handles, and the log entry of each
PhaseNetworks == IF options.includeNetworks THEN selection.networks ELSE <<>>

NetworkPhaseLogs ==
  [k \in 1..Len(PhaseNetworks) |->
     IF PhaseNetworks[k] \in BuiltInNetworks
     THEN <<"Skipping default network ", PhaseNetworks[k], " (predefined by Docker).">>
     ELSE <<"Creating network ", PhaseNetworks[k], " on target">>]

CreatedNetworks == SelectSeq(PhaseNetworks, LAMBDA n : n \notin BuiltInNetworks)

RemoteSourceVolumesReturnAfterNetworks ==
  (options.includeVolumes /\ SourceIsRemote /\ outcome.kind = "returned") =>
    /\ ~outcome.ok
    /\ outcome.message = RemoteVolumeMessage
    /\ outcome.logs = NetworkPhaseLogs
    /\ Len(commands) = Len(CreatedNetworks)
    /\ \A k \in 1..Len(commands) :
         /\ commands[k].kind = "network create"
         /\ commands[k].subject = CreatedNetworks[k]
         /\ CreatedNetworks[k] \in targetNetworks
    /\ progress = [k \in 1..Len(CreatedNetworks) |->
                     [current |-> k, total |-> progress[k].total,
                      message |-> <<"Creating network ", CreatedNetworks[k], " on target">>]]
    /\ procs = NoProcs
    /\ pc = "done"
    /\ ~ENABLED Next

\* C26: with volumes included and a remote source, the result that runMigration
\* returns is ok:false with the "not implemented" message and is returned after
\* the network phase has run: its logs are exactly the entries of the network
\* phase, the networks created are still on the target, and no command other
\* than the network commands has been or is executed.
C26_RemoteSourceVolumesReturnAfterNetworks == []RemoteSourceVolumesReturnAfterNetworks

\* a refused run, with containers selected too, that has skipped a default
\* network and created another
C26_Witness ==
  /\ options.includeVolumes /\ options.includeContainers /\ SourceIsRemote
  /\ outcome.kind = "returned"
  /\ selection.networks = <<"bridge", "appnet">>
  /\ Len(selection.containers) = 1
  /\ Len(outcome.logs) = 2
  /\ Len(commands) = 1

\* ---------------------------------------------------------------- C27
\* a command other than the cleanup has failed: runMigration has been left with
\* the error of a command, the volume synchronisation has been rejected, or
\* rsync has ended with an error other than "no such program"
CommandHasFailed ==
  \/ outcome.kind = "raised" /\ outcome.message.error = "Command failed"
  \/ pipePromise.state = "rejected"
  \/ rsyncError \in {<<"exit">>, <<"signal">>}

NothingFurther ==
  CommandHasFailed => commands' = commands /\ progress' = progress /\ index' = index

\* C27: after an external command other than the cleanup has failed,
\* runMigration issues no further command, goes on to no later resource and
\* sends no further progress event.
C27_NothingAfterAFailedCommand == [][NothingFurther]_vars

\* ---------------------------------------------------------------- C28
\* the network phase is over and no command of it has failed
NetworkPhaseCompleted ==
  /\ pc \notin {"ui", "start", "networks", "awaitNetwork"}
  /\ ~(/\ outcome.kind = "raised"
       /\ outcome.message.error = "Command failed"
       /\ outcome.message.detail = "network create")

NetworkCommandSubjects ==
  LET creates == SelectSeq(commands, LAMBDA c : c.kind = "network create")
  IN  [k \in 1..Len(creates) |-> creates[k].subject]

NetworkProgressSubjects ==
  LET events == SelectSeq(progress, LAMBDA e : e.message[1] = "Creating network ")
  IN  [k \in 1..Len(events) |-> events[k].message[2]]

DefaultNetworksOnlyLogged ==
  /\ \A k \in 1..Len(NetworkCommandSubjects) : NetworkCommandSubjects[k] \notin BuiltInNetworks
  /\ \A k \in 1..Len(NetworkProgressSubjects) : NetworkProgressSubjects[k] \notin BuiltInNetworks
  /\ pc \notin {"ui", "start"} =>
       \A k \in 1..Len(PhaseNetworks) :
         k <= Len(logs) =>
           /\ logs[k][1] = NetworkPhaseLogs[k][1]
           /\ logs[k][2] = NetworkPhaseLogs[k][2]
  /\ NetworkPhaseCompleted =>
       /\ Len(logs) >= Len(PhaseNetworks)
       /\ NetworkCommandSubjects = CreatedNetworks
       /\ NetworkProgressSubjects = CreatedNetworks

\* C28: no network-create command is issued for bridge, host or none: each
\* selected default network gives one "skipping" log entry, no command and no
\* progress event, and the networks after it are still processed.
C28_DefaultNetworksOnlyLogged == []DefaultNetworksOnlyLogged

\* a network created after a default network was skipped
C28_Witness ==
  /\ options.includeNetworks
  /\ selection.networks = <<"bridge", "appnet">>
  /\ NetworkPhaseCompleted
  /\ Len(commands) >= 1 /\ commands[1].kind = "network create"
  /\ logs[1][1] = "Skipping default network "
  /\ Len(progress) >= 1

\* ---------------------------------------------------------------- C29
NetworkFlagValues(args) ==
  LET at == SelectSeq([k \in 1..Len(args) |-> k], LAMBDA k : args[k] = <<"--network">>)
  IN  [j \in 1..Len(at) |-> args[at[j] + 1]]

\* C29: the arguments have at most one --network flag; its value is the first
\* network of the container, in the inspected order, that is not bridge, host
\* or none; a container attached to default networks only gets no flag.
C29_AtMostOneNetworkFlag ==
  argsBuilt # <<>> =>
    LET nonDefault == SelectSeq(argsInspect.Networks, LAMBDA n : n \notin BuiltInNetworks)
        values == NetworkFlagValues(argsBuilt[1].args)
    IN  /\ Len(values) <= 1
        /\ values = IF nonDefault = <<>> THEN <<>> ELSE << <<nonDefault[1]>> >>

\* a container on a default network and two others
C29_Witness ==
  /\ argsBuilt # <<>>
  /\ argsInspect.Networks = <<"bridge", "backend", "appnet">>
  /\ NetworkFlagValues(argsBuilt[1].args) = << <<"backend">> >>

\* ---------------------------------------------------------------- C30
\* the command string handed to ssh: the last argument
RemoteCommandString(cmd) == cmd.args[Len(cmd.args)]

\* the string is `docker` followed by quoted arguments, or `rm -f` followed by
\* one quoted path: every value in it stands between two quotes
EveryValueQuoted(str) ==
  IF str[1] = "docker"
  THEN /\ Len(str) % 4 = 1
       /\ \A j \in 0..((Len(str) - 1) \div 4 - 1) :
            str[4 * j + 2] = " " /\ str[4 * j + 3] = "'" /\ str[4 * j + 5] = "'"
  ELSE /\ str[1] = "rm -f "
       /\ Len(str) = 4
       /\ str[2] = "'" /\ str[4] = "'"

\* C30: every resource name or path in a command string that is sent to a
\* remote host is shell-quoted on its own; no such string holds an unquoted
\* name.
C30_RemoteCommandsQuoteEveryName ==
  \A k \in 1..Len(commands) :
    commands[k].command = "ssh" => EveryValueQuoted(RemoteCommandString(commands[k]))

\* ------------------------------------------- half-configured host records
\* HostConfig has only optional fields: the renderer sends whatever the form
\* holds, so a host can carry an address without a user, or a user without an
\* address
AddressOnlyHost == [host |-> "10.0.0.2", user |-> "", port |-> 0, identityFile |-> ""]
UserOnlyHost == [host |-> "", user |-> "root", port |-> 0, identityFile |-> ""]
HostConfigs == Hosts \cup {AddressOnlyHost, UserOnlyHost}

\* runMigration invoked with any HostConfig for source and target
HostInit ==
  /\ source \in HostConfigs
  /\ target \in HostConfigs
  /\ selection \in TwinSelections
  /\ options \in RunOptions
  /\ pc = "start"
  /\ index = 1
  /\ logs = <<>>
  /\ current = 0
  /\ totalSteps = 0
  /\ inspectItems = <<>>
  /\ tar = NoTar
  /\ outcome = Pending
  /\ progress = <<>>
  /\ commands = <<>>
  /\ clock = 0
  /\ procs = NoProcs
  /\ sourceExit = <<>>
  /\ targetExit = <<>>
  /\ pipePromise = PendingPromise
  /\ plan = NoPlan
  /\ planSeed = 0
  /\ planTick = 0
  /\ argsInspect = EmptyInspect
  /\ argsBuilt = <<>>
  /\ rsyncError = <<>>
  /\ swallowed = {}
  /\ targetNetworks \in TargetNetworkSets
  /\ firstRun = NoRun
  /\ otherTar = NoOtherTar
  /\ ui = IdleUi

HostSpec == HostInit /\ [][Next]_vars

\* a configuration that carries exactly one of address and user
HalfConfigured(h) == (h.host = "") # (h.user = "")

\* the commands runMigration runs for the target host
TargetSideKinds ==
  {"network create", "volume create", "volume unpack", "load", "create"}

\* C31: a host configuration that carries exactly one of address and user is
\* reported as a configuration error, and its commands are not executed on the
\* local machine: with such a target, no target-side command is handed to the
\* local docker, and the execution does not return ok:true
C31_HalfConfiguredHostIsAnError ==
  HalfConfigured(target) =>
    /\ \A k \in 1..Len(commands) :
         commands[k].kind \in TargetSideKinds => commands[k].command # "docker"
    /\ ~(outcome.kind = "returned" /\ outcome.ok)

\* the commit commands of the execution, in the order issued
CommitCommands == SelectSeq(commands, LAMBDA cmd : cmd.kind = "commit")

\* C32: within one execution, two distinct selected container names are
\* committed to distinct image tags
C32_DistinctNamesDistinctImageTags ==
  \A i, j \in 1..Len(CommitCommands) :
    CommitCommands[i].subject # CommitCommands[j].subject =>
      CommitCommands[i].args[3] # CommitCommands[j].args[3]

\* --------------------------------------------- a second execution's archive
\* another execution of runMigration reaches the naming of its archive for a
\* container: `${sanitizeImageTag(container)}-${Date.now()}.tar` in os.tmpdir(),
\* with the clock this execution reads
OtherCommit ==
  /\ otherTar = NoOtherTar
  /\ \E container \in ContainerNames, now \in clock..MaxClock :
       /\ clock' = now
       /\ otherTar' = [container |-> container, tar |-> TarFor(container, now)]
  /\ UNCHANGED <<inputVars, pc, index, logs, current, totalSteps, inspectItems, tar, outcome,
                 progress, commands, pipeVars, planVars, argsVars, firstRun, ui,
                 rsyncError, swallowed, targetNetworks>>

TwoRunsNext == OtherCommit \/ Next

TwoRunsSpec == HostInit /\ [][TwoRunsNext]_vars

\* this execution has named the archive of its current container and has not
\* finished with it
ArchiveInUse ==
  pc \in {"awaitCommit", "awaitSave", "awaitCopy", "awaitRsync", "awaitScp", "awaitLoad",
          "awaitCreate", "awaitUnlink", "awaitRemoteRm"}

otherLocalTar == <<"tmpdir/", otherTar.tar.tag, "-", otherTar.tar.stamp, ".tar">>

\* C33: two executions of runMigration that process the same container never
\* use the same temporary archive path
C33_ExecutionsNeverShareAnArchivePath ==
  ArchiveInUse /\ otherTar.container = Container => localTar # otherLocalTar

\* ---------------------------------------------------------------- C34
\* the plan createMigrationPlan builds for the parameters of this execution
PlanOfRun == createMigrationPlan(source, target, selection, options, 0, 0, 0)

\* the resources the plan works on, in step order: a network by its create
\* step, a volume by its sync step, a container by its commit step
PlanWork ==
  LET heads == SelectSeq(PlanOfRun.steps,
                 LAMBDA st : st.label[1] \in {"Create network ", "Sync volume ", "Commit container "})
  IN  [k \in 1..Len(heads) |->
         [category |-> IF heads[k].label[1] = "Create network " THEN "network"
                       ELSE IF heads[k].label[1] = "Sync volume " THEN "volume"
                       ELSE "container",
          name |-> heads[k].label[2]]]

\* the resources the engine has worked on, in command order: a network by its
\* create command, a volume by its packing process, a container by its commit
EngineWork ==
  LET heads == SelectSeq(commands,
                 LAMBDA cmd : cmd.kind \in {"network create", "volume pack", "commit"})
  IN  [k \in 1..Len(heads) |->
         [category |-> IF heads[k].kind = "network create" THEN "network"
                       ELSE IF heads[k].kind = "volume pack" THEN "volume"
                       ELSE "container",
          name |-> heads[k].subject]]

\* C34 as stated: when no command has failed, the settled execution has worked
\* on the resources of the plan's steps, in the plan's order
C34_EngineWorkEqualsPlanWork ==
  (pc = "done" /\ ~CommandHasFailed) => EngineWork = PlanWork

\* what the engine leaves out of the plan: with a remote source every volume and
\* every container, and a container for which inspection returned no data
EngineTakesUp(item) ==
  \/ item.category = "network"
  \/ /\ item.category = "volume"
     /\ source.host = "" \/ source.user = ""
  \/ /\ item.category = "container"
     /\ source.host = "" \/ source.user = ""
     /\ \E k \in 1..Len(inspectItems) : StripLeadingSlash(inspectItems[k].Name) = item.name

EngineWorkFollowsPlan ==
  (pc = "done" /\ ~CommandHasFailed) => EngineWork = SelectSeq(PlanWork, EngineTakesUp)

\* C34: when no command has failed, the settled execution has worked on the
\* resources of the plan's steps, in the plan's order, except that with a remote
\* source it has worked on no volume and no container, and that it has not
\* processed a container for which inspection returned no data
C34_EngineWorkFollowsPlan == []EngineWorkFollowsPlan

C34_Witness ==
  /\ pc = "done" /\ outcome.kind = "returned" /\ outcome.ok
  /\ Len(EngineWork) = 3
  /\ EngineWork[1].category = "network"
  /\ EngineWork[2].category = "volume"
  /\ EngineWork[3].category = "container"
  /\ EngineWork = PlanWork

\* ---------------------------------------------------------------- C35
\* the save step of commands[k]'s container has written the archive: the
\* transfer that follows a completed save has been started
ArchiveWrittenAt(k) ==
  /\ commands[k].kind = "transfer"
  /\ commands[k].command \in {"fs.copyFile", "rsync"}

CleanupAttemptedAfter(k, kind) ==
  \E j \in (k + 1)..Len(commands) :
    commands[j].kind = kind /\ commands[j].subject = commands[k].subject

\* C35: when runMigration has settled, the removal of the local archive, and of
\* the remote copy when the target is remote, has been attempted for every
\* container whose archive the save step has written, also when the transfer,
\* load or create step of that container has failed
C35_CleanupAttemptedBeforeSettling ==
  pc = "done" =>
    \A k \in 1..Len(commands) :
      ArchiveWrittenAt(k) =>
        /\ CleanupAttemptedAfter(k, "unlink")
        /\ (target.host # "" /\ target.user # "") => CleanupAttemptedAfter(k, "remote rm")

\* ---------------------------------------------------------------- C36
\* this step is a call of runPipedCommands: a new promise is created
PipeStarts ==
  /\ Len(commands') = Len(commands) + 2
  /\ commands'[Len(commands')].kind = "volume unpack"

\* a settled promise is left as it is by every event of its processes
OutcomeKept == (pipePromise.state # "pending" /\ ~PipeStarts) => pipePromise' = pipePromise

\* success has been concluded from two close events with code zero
ResolvedAfterBothClosed ==
  pipePromise.state = "resolved" =>
    /\ ProcessClosed(procs.source) /\ ProcessClosed(procs.target)
    /\ sourceExit = <<0>> /\ targetExit = <<0>>

CommandsOfKind(kind) == Cardinality({k \in 1..Len(commands) : commands[k].kind = kind})

ProgressEventsCounted ==
  (pc = "done" /\ outcome.kind = "returned" /\ outcome.ok) =>
    LET N == CommandsOfKind("network create")
        V == CommandsOfKind("volume pack")
        P == CommandsOfKind("create")
        S == ContainersSkipped
    IN  /\ Len(progress) = N + V + 5 * P + S
        /\ Len(progress) > 0 =>
             progress[Len(progress)].total - progress[Len(progress)].current = 4 * S

\* C37: an execution that has returned ok:true has sent N + V + 5*P + S progress
\* events (N networks created, V volumes synchronized, P containers processed,
\* S containers skipped for missing inspection data), and its last event has
\* current 4*S below total: current = total exactly when no container was skipped
C37_ProgressEventsCounted == []ProgressEventsCounted

C37_Witness ==
  /\ pc = "done" /\ outcome.kind = "returned" /\ outcome.ok
  /\ ContainersSkipped = 1
  /\ CommandsOfKind("create") = 1
  /\ CommandsOfKind("network create") = 1
  /\ Len(progress) = 7
  /\ progress[7].current = 7 /\ progress[7].total = 11

\* ---------------------------------------------------------------- C38
\* C38: with a remote source and includeVolumes or includeContainers set, a
\* settled execution has returned ok:false, whatever the selection holds (also
\* with no volume and no container selected), and by then the create commands
\* of the selected networks of the network phase have been issued, and nothing
\* else
C38_RemoteSourceRefusedByFlags ==
  (SourceIsRemote /\ (options.includeVolumes \/ options.includeContainers) /\ pc = "done") =>
    /\ outcome.kind = "returned" /\ ~outcome.ok
    /\ [k \in 1..Len(commands) |-> commands[k].subject] = CreatedNetworks

\* ---------------------------------------------------------------- C39
\* the category a command, a log entry, a progress event, a plan step and a plan
\* warning belong to
CategoryOfCommand(cmd) ==
  IF cmd.kind = "network create" THEN "networks"
  ELSE IF cmd.kind \in {"volume create", "volume pack", "volume unpack", "volume inspect"}
       THEN "volumes"
  ELSE "containers"

CategoryOfLog(entry) ==
  IF entry[1] \in {"Creating network ", "Skipping default network "} THEN "networks"
  ELSE IF entry[1] \in {"Preparing volume ", "Syncing volume data via helper container stream.",
                        "Volume inspection data captured.", "stdout of ", ""}
       THEN "volumes"
  ELSE "containers"

CategoryOfProgress(update) ==
  IF update.message[1] = "Creating network " THEN "networks"
  ELSE IF update.message[1] = "Syncing volume " THEN "volumes"
  ELSE "containers"

CategoryOfStep(step) ==
  IF step.label[1] = "Create network " THEN "networks"
  ELSE IF step.label[1] \in {"Ensure volume ", "Sync volume "} THEN "volumes"
  ELSE "containers"

CategoryOfWarning(warning) ==
  IF warning[1] = "Skipping default network \"" THEN "networks"
  ELSE IF warning = VolumeWarning THEN "volumes"
  ELSE IF warning = ContainerWarning THEN "containers"
  ELSE "none"

ExcludedCategories ==
  (IF options.includeNetworks THEN {} ELSE {"networks"})
  \cup (IF options.includeVolumes THEN {} ELSE {"volumes"})
  \cup (IF options.includeContainers THEN {} ELSE {"containers"})

\* what a step of the execution adds to the commands, the logs and the progress
\* events is of no excluded category
ExcludedCategoriesUntouched ==
  /\ \A k \in (Len(commands) + 1)..Len(commands') :
       CategoryOfCommand(commands'[k]) \notin ExcludedCategories
  /\ \A k \in (Len(logs) + 1)..Len(logs') :
       CategoryOfLog(logs'[k]) \notin ExcludedCategories
  /\ \A k \in (Len(progress) + 1)..Len(progress') :
       CategoryOfProgress(progress'[k]) \notin ExcludedCategories

PlanLeavesOutExcludedCategories ==
  pc = "start" =>
    /\ \A k \in 1..Len(PlanOfRun.steps) :
         CategoryOfStep(PlanOfRun.steps[k]) \notin ExcludedCategories
    /\ \A k \in 1..Len(PlanOfRun.warnings) :
         CategoryOfWarning(PlanOfRun.warnings[k]) \notin ExcludedCategories

\* C39: for a category whose include flag is false, the plan built for the
\* parameters of the execution holds no step and no warning, and the execution
\* issues no command, writes no log entry and sends no progress event, whatever
\* names the selection holds for the category
C39_ExcludedCategoriesUntouched ==
  [][ExcludedCategoriesUntouched]_vars /\ []PlanLeavesOutExcludedCategories

C39_Witness ==
  /\ pc = "done" /\ outcome.kind = "returned" /\ outcome.ok
  /\ ~options.includeNetworks /\ selection.networks = <<"appnet">>
  /\ ~options.includeContainers /\ Len(selection.containers) = 1
  /\ options.includeVolumes /\ Len(selection.volumes) = 1
  /\ Len(commands) = 4
  /\ Len(PlanOfRun.steps) = 2

\* ============================================================ the renderer
\* App: the four handlers that call the preload API.  Each begins with
\* setIsBusy(true), awaits its call inside try/catch, and ends with
\* setIsBusy(false) in a finally block.  Without the preload API the handler
\* throws and ends within the click.  The main process's side of a call is not
\* part of this specification: a call in flight resolves or rejects.
\* what the execution and the builders hold is left as it is by the renderer
rendererFrame ==
  <<index, logs, current, totalSteps, inspectItems, tar, outcome, progress, commands, clock,
    pipeVars, planSeed, planTick, argsVars, rsyncError, swallowed, targetNetworks, firstRun,
    otherTar>>

EmptySelection == [containers |-> <<>>, volumes |-> <<>>, networks |-> <<>>]

\* canTestSource and canTestTarget: the local source is the unset HostConfig
canTest(which) ==
  IF which = "source" THEN source = LocalHost \/ isRemoteHost(source)
  ELSE isRemoteHost(target)

\* a click on one of the "Test connection" buttons,
\* disabled={isBusy || !canTestSource} and disabled={isBusy || !canTestTarget}
handleTestConnection ==
  /\ ~ui.isBusy
  /\ \E which \in {"source", "target"} : canTest(which)
  /\ \E api \in BOOLEAN :
       ui' = IF api
             THEN [ui EXCEPT !.isBusy = TRUE, !.calls = Append(@, "testConnection")]
             ELSE ui
  /\ UNCHANGED <<inputVars, pc, plan, rendererFrame>>

\* a click on "Load inventory", disabled={isBusy}
handleLoadInventory ==
  /\ ~ui.isBusy
  /\ plan' = NoPlan
  /\ \E api \in BOOLEAN :
       ui' = IF api
             THEN [isBusy |-> TRUE, calls |-> Append(ui.calls, "listInventory"), result |-> "none"]
             ELSE [ui EXCEPT !.result = "Failed to load inventory."]
  /\ UNCHANGED <<inputVars, pc, rendererFrame>>

\* variant: the button is disabled only for an empty selection
handleCreatePlanWhileBusy ==
  /\ ~isSelectionEmpty
  /\ \E api \in BOOLEAN :
       ui' = IF api
             THEN [isBusy |-> TRUE, calls |-> Append(ui.calls, "createPlan"), result |-> "none"]
             ELSE [ui EXCEPT !.result = "Failed to generate migration plan."]
  /\ UNCHANGED <<inputVars, pc, plan, rendererFrame>>

\* a click on "Generate plan", disabled={isBusy || isSelectionEmpty}
handleCreatePlan ==
  /\ ~(ui.isBusy \/ isSelectionEmpty)
  /\ \E api \in BOOLEAN :
       ui' = IF api
             THEN [isBusy |-> TRUE, calls |-> Append(ui.calls, "createPlan"), result |-> "none"]
             ELSE [ui EXCEPT !.result = "Failed to generate migration plan."]
  /\ UNCHANGED <<inputVars, pc, plan, rendererFrame>>

\* the message setResult is given when a call has settled; a test result goes to
\* setTest, an inventory and a plan to their own state
ResultShown(call, resolved) ==
  IF call = "runMigration"
  THEN (IF resolved THEN "MigrationResult" ELSE "Migration failed to start.")
  ELSE IF call = "createPlan" /\ ~resolved THEN "Failed to generate migration plan."
  ELSE IF call = "listInventory" /\ ~resolved THEN "Failed to load inventory."
  ELSE ui.result

\* variant: a handler without the finally block
CallSettledWithoutFinally ==
  /\ ui.calls # <<>>
  /\ \E resolved \in BOOLEAN :
       /\ ui' = [isBusy |-> ~resolved, calls |-> Tail(ui.calls),
                 result |-> ResultShown(Head(ui.calls), resolved)]
       /\ selection' = IF resolved /\ Head(ui.calls) = "listInventory"
                       THEN EmptySelection ELSE selection
       /\ plan' = IF resolved /\ Head(ui.calls) = "createPlan"
                  THEN createMigrationPlan(source, target, selection, options, clock,
                                           planTick, planSeed)
                  ELSE plan
  /\ pc' = IF Head(ui.calls) = "runMigration" THEN "ui" ELSE pc
  /\ UNCHANGED <<source, target, options, rendererFrame>>

\* the call a handler awaits resolves or rejects: the rest of the try block or
\* the catch block, and setIsBusy(false)
CallSettled ==
  /\ ui.calls # <<>>
  /\ \E resolved \in BOOLEAN :
       /\ ui' = [isBusy |-> FALSE, calls |-> Tail(ui.calls),
                 result |-> ResultShown(Head(ui.calls), resolved)]
       /\ selection' = IF resolved /\ Head(ui.calls) = "listInventory"
                       THEN EmptySelection ELSE selection
       /\ plan' = IF resolved /\ Head(ui.calls) = "createPlan"
                  THEN createMigrationPlan(source, target, selection, options, clock,
                                           planTick, planSeed)
                  ELSE plan
  /\ pc' = IF Head(ui.calls) = "runMigration" THEN "ui" ELSE pc
  /\ UNCHANGED <<source, target, options, rendererFrame>>

UiNext ==
  \/ ToggleDryRun
  \/ handleTestConnection \/ handleLoadInventory \/ handleCreatePlan \/ handleRunMigration
  \/ CallSettled

UiSpec == DryRunInit /\ [][UiNext]_vars

\* ---------------------------------------------------------------- C40
\* isBusy is true exactly while a call is in flight, and no two calls overlap
BusyWhileInFlight ==
  /\ ui.isBusy <=> ui.calls # <<>>
  /\ Len(ui.calls) <= 1

\* a call is started only while isBusy is false, and isBusy is false again once a
\* call has resolved or rejected
CallsStartWhenIdle ==
  /\ Len(ui'.calls) > Len(ui.calls) => ~ui.isBusy /\ ui'.isBusy
  /\ Len(ui'.calls) < Len(ui.calls) => ~ui'.isBusy

\* C40: an API call is started only while isBusy is false; isBusy is true as
\* long as the call is in flight and false again when the call has resolved or
\* rejected, so no two API calls overlap and the UI does not stay busy after a
\* failed call
C40_OneCallAtATime == []BusyWhileInFlight /\ [][CallsStartWhenIdle]_vars

\* the plan call has resolved, the migration call after it has failed, and the UI
\* is idle again with the failure shown
C40_Witness ==
  /\ plan.built
  /\ ui.result = "Migration failed to start."
  /\ ~ui.isBusy /\ ui.calls = <<>>
  /\ pc = "ui" /\ ~isSelectionEmpty /\ ~options.dryRun


====
